---------------------------- MODULE Spec2Model ----------------------------
(***************************************************************************)
(* A model of langstar: the SDK client (request builders, execute, the     *)
(* deployment types) and the CLI commands built on it (configuration       *)
(* loading, prompt scoping, deployment lookup for assistants, graph        *)
(* create --wait).                                                         *)
(*                                                                         *)
(* Option<T> is a sequence of length 0 (None) or 1 (Some).  A JSON value   *)
(* is a record [t, v]: t is "absent" (the key is not in the object),       *)
(* "null", "str" or "num"; v is its text.  HTTP header names are kept in   *)
(* lower case, as the HTTP library normalises them.                        *)
(***************************************************************************)
EXTENDS Integers, Sequences, FiniteSets, TLC

VARIABLES
    env,            \* the process environment (variables read by Config::load)
    file,           \* the config file
    cmd,            \* the parsed command line
    pc,             \* position of the running command
    config,         \* the Config returned by Config::load
    client,         \* the LangchainClient the command, or the SDK user, holds
    sent,           \* the HTTP requests sent so far, in order
    resp,           \* the HTTP response to the most recent request
    called,         \* the request builder most recently called
    last,           \* the result of the most recent SDK call
    deployment,     \* graph create: the most recently obtained Deployment
    deployment_url, \* assistant commands: the resolved custom URL
    poll_count,     \* graph create --wait: iterations of the wait loop
    elapsed,        \* graph create --wait: milliseconds on the clock since start_time
    poll_interval,  \* graph create --wait: seconds of the sleep chosen last
    outcome,        \* the command's result
    org,            \* prompt push: the organization ID fetched from the server
    integration_id, \* graph create: the resolved GitHub integration ID
    integrations,   \* find_integration_for_repo: the integrations not yet tried
    returned        \* the value a function applied on its own returned, or the line read

sdkVars == <<client, sent, resp, called, last>>
inputs == <<env, file, cmd>>
cliVars == <<inputs, pc, config, deployment, deployment_url, poll_count, elapsed,
             poll_interval, outcome, org, integration_id, integrations, returned>>
vars == <<sdkVars, cliVars>>

---------------------------------------------------------------------------
(* Bounds *)

MaxSent == 1          \* SDK specification: requests sent per behaviour
MaxDeployments == 2   \* deployments in one list response
MaxPolls == 3         \* iterations of the wait loop that are followed
MaxIntegrations == 2  \* integrations in one list response
MaxPage == 3          \* prompts in a page given to the visibility filter

---------------------------------------------------------------------------
(* Option, Result *)

None == <<>>
Some(x) == <<x>>
IsSome(o) == o # <<>>
IsNone(o) == o = <<>>
UnwrapOr(o, d) == IF o # <<>> THEN o[1] ELSE d

---------------------------------------------------------------------------
(* JSON values *)

JAbsent == [t |-> "absent", v |-> ""]
JNull == [t |-> "null", v |-> ""]
JStr(s) == [t |-> "str", v |-> s]
JBool(s) == [t |-> "bool", v |-> s]

\* serde_json::Value::as_str
AsStr(j) == IF j.t = "str" THEN Some(j.v) ELSE None

---------------------------------------------------------------------------
(* sdk/src/auth.rs *)

AuthConfigNew(ls, lg, o, w) ==
    [langsmith_api_key |-> ls, langgraph_api_key |-> lg,
     organization_id |-> o, workspace_id |-> w]

KeyOk(k) == [ok |-> TRUE, val |-> k, err |-> ""]
KeyErr == [ok |-> FALSE, val |-> "", err |-> "AuthError"]

require_langsmith_key_swapped(auth) ==
    IF IsSome(auth.langgraph_api_key) THEN KeyOk(auth.langgraph_api_key[1]) ELSE KeyErr

require_langsmith_key(auth) ==
    IF IsSome(auth.langsmith_api_key) THEN KeyOk(auth.langsmith_api_key[1]) ELSE KeyErr

\* A graph-runtime key that falls back on the prompt-hub key.
require_langgraph_key_or_langsmith(auth) ==
    IF IsSome(auth.langgraph_api_key) THEN KeyOk(auth.langgraph_api_key[1])
    ELSE require_langsmith_key(auth)

require_langgraph_key(auth) ==
    IF IsSome(auth.langgraph_api_key) THEN KeyOk(auth.langgraph_api_key[1]) ELSE KeyErr

---------------------------------------------------------------------------
(* sdk/src/client.rs *)

LANGSMITH_API_BASE == "https://api.smith.langchain.com"
LANGGRAPH_API_BASE == "https://api.langgraph.cloud"
CONTROL_PLANE_API_BASE == "https://api.host.langchain.com"

LangchainClientNew(auth) ==
    [auth |-> auth,
     langsmith_base_url |-> LANGSMITH_API_BASE,
     langgraph_base_url |-> LANGGRAPH_API_BASE,
     control_plane_base_url |-> CONTROL_PLANE_API_BASE,
     organization_id |-> auth.organization_id,
     workspace_id |-> auth.workspace_id]

\* LangchainClient::with_base_urls
with_base_urls(auth, langsmith_base_url, langgraph_base_url, control_plane_base_url) ==
    [auth |-> auth,
     langsmith_base_url |-> langsmith_base_url,
     langgraph_base_url |-> langgraph_base_url,
     control_plane_base_url |-> control_plane_base_url,
     organization_id |-> auth.organization_id,
     workspace_id |-> auth.workspace_id]

with_organization_id(c, org_id) == [c EXCEPT !.organization_id = Some(org_id)]
with_workspace_id(c, ws_id) == [c EXCEPT !.workspace_id = Some(ws_id)]

NoRequest == [service |-> "", method |-> "", base |-> "", path |-> "", headers |-> {},
              body |-> <<>>]
BuildOk(r) == [ok |-> TRUE, req |-> r, err |-> ""]
BuildErr(e) == [ok |-> FALSE, req |-> NoRequest, err |-> e]

Header(name, value) == <<name, value>>
OptHeader(name, o) == IF IsSome(o) THEN {Header(name, o[1])} ELSE {}

HeaderNames(r) == {h[1] : h \in r.headers}
HeaderValue(r, name) == {h[2] : h \in {g \in r.headers : g[1] = name}}

LangsmithRequestWorkspaceWins(c, method, path) ==
    LET k == require_langsmith_key(c.auth) IN
    IF ~k.ok THEN BuildErr(k.err)
    ELSE BuildOk([service |-> "langsmith", method |-> method,
                  base |-> c.langsmith_base_url, path |-> path, body |-> <<>>,
                  headers |-> {Header("x-api-key", k.val),
                               Header("content-type", "application/json")}
                              \cup (IF IsSome(c.workspace_id)
                                    THEN OptHeader("x-tenant-id", c.workspace_id)
                                    ELSE OptHeader("x-organization-id", c.organization_id))])

\* The body shared by langsmith_get, langsmith_post and langsmith_put, which
\* differ in the HTTP method only.
LangsmithRequest(c, method, path) ==
    LET k == require_langsmith_key(c.auth) IN
    IF ~k.ok THEN BuildErr(k.err)
    ELSE BuildOk([service |-> "langsmith", method |-> method,
                  base |-> c.langsmith_base_url, path |-> path, body |-> <<>>,
                  headers |-> {Header("x-api-key", k.val),
                               Header("content-type", "application/json")}
                              \cup OptHeader("x-organization-id", c.organization_id)
                              \cup OptHeader("x-tenant-id", c.workspace_id)])

langsmith_get(c, path) == LangsmithRequest(c, "GET", path)
langsmith_post(c, path) == LangsmithRequest(c, "POST", path)
langsmith_put(c, path) == LangsmithRequest(c, "PUT", path)

ControlPlaneRequest(c, method, path) ==
    LET k == require_langsmith_key(c.auth) IN
    IF ~k.ok THEN BuildErr(k.err)
    ELSE BuildOk([service |-> "control_plane", method |-> method,
                  base |-> c.control_plane_base_url, path |-> path, body |-> <<>>,
                  headers |-> {Header("x-api-key", k.val),
                               Header("content-type", "application/json")}
                              \cup OptHeader("x-tenant-id", c.workspace_id)])

control_plane_get(c, path) == ControlPlaneRequest(c, "GET", path)

\* control_plane_post is called by DeploymentClient::create; the control-plane
\* contract is the api-key header plus the tenant header.
control_plane_post(c, path) == ControlPlaneRequest(c, "POST", path)

\* control_plane_delete is called by DeploymentClient::delete; the same
\* contract with the DELETE method.
control_plane_delete(c, path) == ControlPlaneRequest(c, "DELETE", path)

\* with_langgraph_url is called by the assistant commands: the client with the
\* given URL substituted for the default graph-runtime base URL.
with_langgraph_url(c, url) == [c EXCEPT !.langgraph_base_url = url]

\* RequestBuilder::json on the builder's result
WithJson(build, body) ==
    IF build.ok THEN [build EXCEPT !.req.body = <<body>>] ELSE build

LanggraphRequestScoped(c, method, path) ==
    LET k == require_langgraph_key(c.auth) IN
    IF ~k.ok THEN BuildErr(k.err)
    ELSE BuildOk([service |-> "langgraph", method |-> method,
                  base |-> c.langgraph_base_url, path |-> path, body |-> <<>>,
                  headers |-> {Header("x-api-key", k.val),
                               Header("content-type", "application/json")}
                              \cup OptHeader("x-tenant-id", c.workspace_id)])

\* The body shared by langgraph_get, langgraph_post, langgraph_patch and
\* langgraph_delete, which differ in the HTTP method only.
LanggraphRequest(c, method, path) ==
    LET k == require_langgraph_key(c.auth) IN
    IF ~k.ok THEN BuildErr(k.err)
    ELSE BuildOk([service |-> "langgraph", method |-> method,
                  base |-> c.langgraph_base_url, path |-> path, body |-> <<>>,
                  headers |-> {Header("x-api-key", k.val),
                               Header("content-type", "application/json")}])

langgraph_get(c, path) == LanggraphRequest(c, "GET", path)
langgraph_post(c, path) == LanggraphRequest(c, "POST", path)
langgraph_patch(c, path) == LanggraphRequest(c, "PATCH", path)
langgraph_delete(c, path) == LanggraphRequest(c, "DELETE", path)

---------------------------------------------------------------------------
(* HTTP responses and LangchainClient::execute *)

\* A JSON body: its shape and the resources it holds.
NoJson == [shape |-> "none", items |-> <<>>]
Json(shape, items) == [shape |-> shape, items |-> items]

\* What the transport hands back for one request: no response at all
\* (arrived = FALSE), or a status with a body.  body is "unreadable" (reading
\* it fails), "text" (readable, not JSON) or "json" (readable JSON, given by
\* json).
NoResponse == [arrived |-> FALSE, status |-> 0, body |-> "unreadable",
               text |-> "", json |-> NoJson]
TransportFailure == NoResponse
ErrorResponse(status, body, text) ==
    [arrived |-> TRUE, status |-> status, body |-> body, text |-> text, json |-> NoJson]
JsonResponse(status, json) ==
    [arrived |-> TRUE, status |-> status, body |-> "json", text |-> "{..}", json |-> json]

\* reqwest::StatusCode::is_success
IsSuccess(status) == 200 <= status /\ status <= 299

NoValue == NoJson
ResOk(v) == [tag |-> "Ok", status |-> 0, message |-> "", value |-> v]
ResErr(tag, status, message) ==
    [tag |-> tag, status |-> status, message |-> message, value |-> NoValue]
NoResult == ResErr("None", 0, "")
DecodeError == ResErr("HttpError", 0, "decode")

---------------------------------------------------------------------------
(* sdk/src/deployments.rs: the deployment types *)

KnownStatuses == {"AWAITING_DATABASE", "READY", "UNUSED", "AWAITING_DELETE", "UNKNOWN"}

\* serde's rename_all = "SCREAMING_SNAKE_CASE" on DeploymentStatus
StatusVariant(s) ==
    CASE s = "AWAITING_DATABASE" -> "AwaitingDatabase"
      [] s = "READY" -> "Ready"
      [] s = "UNUSED" -> "Unused"
      [] s = "AWAITING_DELETE" -> "AwaitingDelete"
      [] s = "UNKNOWN" -> "Unknown"

\* The derived Deserialize of DeploymentStatus: a string naming a variant
\* decodes to it; there is no #[serde(other)] variant, so anything else is
\* an "unknown variant" error.
DecodeDeploymentStatus(j) ==
    IF j.t = "str" /\ j.v \in KnownStatuses
    THEN [ok |-> TRUE, val |-> StatusVariant(j.v)]
    ELSE [ok |-> FALSE, val |-> ""]

\* The derived Deserialize of DeploymentSource, whose Unknown variant is
\* #[serde(other)].
DecodeDeploymentSource(s) ==
    CASE s = "github" -> "Github"
      [] s = "external_docker" -> "ExternalDocker"
      [] OTHER -> "Unknown"

\* Option<serde_json::Value>: a missing key (struct default) and null are None.
DecodeSourceConfig(raw) ==
    IF raw.kind \in {"absent", "null"} THEN None ELSE Some(raw)

\* Deployment::default()
DeploymentDefault ==
    [id |-> "", name |-> "", source |-> "Unknown", source_config |-> None,
     status |-> "Unknown"]

\* The derived Deserialize of Deployment, #[serde(default)]: a missing field
\* takes its value from Deployment::default().
DecodeDeploymentFields(raw) ==
    LET st == IF raw.status.t = "absent"
              THEN [ok |-> TRUE, val |-> DeploymentDefault.status]
              ELSE DecodeDeploymentStatus(raw.status) IN
    IF ~st.ok THEN [ok |-> FALSE, val |-> DeploymentDefault]
    ELSE [ok |-> TRUE,
          val |-> [id |-> raw.id, name |-> raw.name,
                   source |-> DecodeDeploymentSource(raw.source),
                   source_config |-> DecodeSourceConfig(raw.source_config),
                   status |-> st.val]]

\* serde_json::Value::get with a string key: None unless the value is an
\* object that has the key.
ValueGet(v, key) ==
    IF v.kind = "object" /\ v[key].t # "absent" THEN Some(v[key]) ELSE None

custom_url_any_value(d) ==
    IF IsNone(d.source_config) THEN None
    ELSE LET v == ValueGet(d.source_config[1], "custom_url") IN
         IF IsNone(v) THEN None ELSE Some(v[1].v)

\* Deployment::custom_url
custom_url(d) ==
    IF IsNone(d.source_config) THEN None
    ELSE LET v == ValueGet(d.source_config[1], "custom_url") IN
         IF IsNone(v) THEN None ELSE AsStr(v[1])

---------------------------------------------------------------------------
(* The other response types *)

\* Organization: id is Option<String>, is_personal is a required bool.
DecodeOrganization(raw) ==
    IF raw.is_personal.t # "bool" \/ raw.id.t \notin {"absent", "null", "str"}
    THEN [ok |-> FALSE, val |-> [id |-> None]]
    ELSE [ok |-> TRUE, val |-> [id |-> AsStr(raw.id)]]

\* Prompt: id and repo_handle are required strings, is_public defaults to
\* false.
DecodePrompt(raw) ==
    IF raw.id.t # "str" \/ raw.repo_handle.t # "str" \/ raw.is_public.t \notin {"absent", "bool"}
    THEN [ok |-> FALSE, val |-> [repo_handle |-> "", is_public |-> FALSE]]
    ELSE [ok |-> TRUE,
          val |-> [repo_handle |-> raw.repo_handle.v,
                   is_public |-> raw.is_public = JBool("true")]]

\* GitHubIntegration: id is a required string.
DecodeGitHubIntegration(raw) ==
    IF raw.id.t # "str" THEN [ok |-> FALSE, val |-> [id |-> ""]]
    ELSE [ok |-> TRUE, val |-> [id |-> raw.id.v]]

\* GitHubRepository: owner and name are required strings.
DecodeGitHubRepository(raw) ==
    IF raw.owner.t # "str" \/ raw.name.t # "str"
    THEN [ok |-> FALSE, val |-> [owner |-> "", name |-> ""]]
    ELSE [ok |-> TRUE, val |-> [owner |-> raw.owner.v, name |-> raw.name.v]]

\* The decoder of one resource of a response type.
DecodeItem(T, raw) ==
    CASE T \in {"Deployment", "DeploymentsList"} -> DecodeDeploymentFields(raw)
      [] T = "Organization" -> DecodeOrganization(raw)
      [] T \in {"PromptResponse", "CreateRepoResponse", "ListReposResponse"} ->
            DecodePrompt(raw)
      [] T = "Vec<GitHubIntegration>" -> DecodeGitHubIntegration(raw)
      [] T = "Vec<GitHubRepository>" -> DecodeGitHubRepository(raw)
      [] OTHER -> [ok |-> TRUE, val |-> raw]

\* The JSON shape a response type is decoded from.
ShapeOf(T) ==
    CASE T = "Deployment" -> "deployment"
      [] T = "DeploymentsList" -> "deployments"
      [] T = "Organization" -> "organization"
      [] T \in {"PromptResponse", "CreateRepoResponse"} -> "repo"
      [] T = "ListReposResponse" -> "repos"
      [] T = "CommitResponse" -> "commit"
      [] T = "Assistant" -> "assistant"
      [] T = "Vec<Assistant>" -> "assistants"
      [] T = "Vec<GitHubIntegration>" -> "integrations"
      [] T = "Vec<GitHubRepository>" -> "repositories"
      [] T = "Revision" -> "revision"

\* response.json::<T>(): the body decodes when it has T's shape and each of
\* its resources decodes.
Decode(T, json) ==
    IF json.shape # ShapeOf(T) THEN DecodeError
    ELSE LET ds == [i \in 1..Len(json.items) |-> DecodeItem(T, json.items[i])] IN
         IF \E i \in 1..Len(ds) : ~ds[i].ok THEN DecodeError
         ELSE ResOk(Json(T, [i \in 1..Len(ds) |-> ds[i].val]))

ExecuteMasksStatus(response, T) ==
    IF ~response.arrived THEN ResErr("HttpError", 0, "send")
    ELSE IF ~IsSuccess(response.status)
         THEN IF response.body = "unreadable"
              THEN ResErr("HttpError", 0, "body")
              ELSE ResErr("ApiError", response.status, response.text)
         ELSE IF response.body = "json" THEN Decode(T, response.json)
              ELSE DecodeError

\* LangchainClient::execute::<T>
Execute(response, T) ==
    IF ~response.arrived THEN ResErr("HttpError", 0, "send")
    ELSE IF ~IsSuccess(response.status)
         THEN ResErr("ApiError", response.status,
                     IF response.body = "unreadable" THEN "Unknown error"
                     ELSE response.text)
         ELSE IF response.body = "json" THEN Decode(T, response.json)
              ELSE DecodeError

\* let request = self.client.<builder>(&path)?; self.client.execute(request).await
Call(build, response, T) ==
    IF ~build.ok THEN [result |-> ResErr(build.err, 0, ""), reqs |-> <<>>,
                       resp |-> NoResponse]
    ELSE [result |-> Execute(response, T), reqs |-> <<build.req>>, resp |-> response]

\* A delete that hands the response to execute, which decodes the body.
SendDecodingBody(build, response) == Call(build, response, "Deployment")

\* The delete methods: request.send() and the status, the body is not decoded.
SendIgnoringBody(build, response) ==
    IF ~build.ok THEN [result |-> ResErr(build.err, 0, ""), reqs |-> <<>>,
                       resp |-> NoResponse]
    ELSE [result |-> IF ~response.arrived THEN ResErr("HttpError", 0, "send")
                     ELSE IF ~IsSuccess(response.status)
                          THEN ResErr("ApiError", response.status,
                                      IF response.body = "unreadable"
                                      THEN "Unknown error" ELSE response.text)
                          ELSE ResOk(NoValue),
          reqs |-> <<build.req>>, resp |-> response]

---------------------------------------------------------------------------
(* sdk/src/deployments.rs: DeploymentClient *)

\* urlencoding::encode, on the strings the model uses: "&", "=" and "+" are
\* percent-encoded, letters, digits, "." and "-" are kept.
urlencoding_encode(s) ==
    CASE s = "a&status=READY" -> "a%26status%3DREADY"
      [] s = "0.2+1" -> "0.2%2B1"
      [] OTHER -> s

\* DeploymentClient::list without the cap on the limit.
deployments_list_uncapped(c, limit, offset, filters, response) ==
    LET path == "/v2/deployments?limit=" \o ToString(UnwrapOr(limit, 20))
                \o "&offset=" \o ToString(UnwrapOr(offset, 0)) IN
    Call(control_plane_get(c, path), response, "DeploymentsList")

\* DeploymentClient::list
deployments_list(c, limit, offset, filters, response) ==
    LET limit_capped == IF UnwrapOr(limit, 20) < 100 THEN UnwrapOr(limit, 20) ELSE 100
        base == <<"limit=" \o ToString(limit_capped),
                  "offset=" \o ToString(UnwrapOr(offset, 0))>>
        Push(params, field, text) ==
            IF IsSome(filters) /\ IsSome(field) THEN Append(params, text) ELSE params
        p1 == Push(base, IF IsSome(filters) THEN filters[1].name_contains ELSE None,
                   "name_contains="
                     \o urlencoding_encode(filters[1].name_contains[1]))
        p2 == Push(p1, IF IsSome(filters) THEN filters[1].status ELSE None,
                   "status="
                     \o (CASE filters[1].status[1] = "AwaitingDatabase" -> "AWAITING_DATABASE"
                           [] filters[1].status[1] = "Ready" -> "READY"
                           [] filters[1].status[1] = "Unused" -> "UNUSED"
                           [] filters[1].status[1] = "AwaitingDelete" -> "AWAITING_DELETE"
                           [] filters[1].status[1] = "Unknown" -> "UNKNOWN"))
        p3 == Push(p2, IF IsSome(filters) THEN filters[1].deployment_type ELSE None,
                   "deployment_type="
                     \o (CASE filters[1].deployment_type[1] = "DevFree" -> "dev_free"
                           [] filters[1].deployment_type[1] = "Dev" -> "dev"
                           [] filters[1].deployment_type[1] = "Prod" -> "prod"))
        query_params ==
              Push(p3, IF IsSome(filters) THEN filters[1].image_version ELSE None,
                   "image_version="
                     \o urlencoding_encode(filters[1].image_version[1]))
        RECURSIVE join(_)
        join(params) == IF Len(params) = 1 THEN params[1]
                        ELSE params[1] \o "&" \o join(Tail(params))
        path == "/v2/deployments?" \o join(query_params) IN
    Call(control_plane_get(c, path), response, "DeploymentsList")

\* DeploymentClient::get
deployments_get(c, deployment_id, response) ==
    Call(control_plane_get(c, "/v2/deployments/" \o deployment_id), response,
         "Deployment")

\* DeploymentClient::get_revision is called by the deployment workflow test
\* and is not among the sources: a GET of the revision under its deployment,
\* decoded as a Revision, whose status is kept as the name of its variant.
get_revision(c, deployment_id, revision_id, response) ==
    Call(control_plane_get(c, "/v2/deployments/" \o deployment_id \o "/revisions/"
                                \o revision_id),
         response, "Revision")

\* DeploymentClient::create
deployments_create(c, request, response) ==
    Call(WithJson(control_plane_post(c, "/v2/deployments"), request), response,
         "Deployment")

\* DeploymentClient::delete
deployments_delete(c, deployment_id, response) ==
    SendIgnoringBody(control_plane_delete(c, "/v2/deployments/" \o deployment_id),
                     response)

---------------------------------------------------------------------------
(* sdk/src/organization.rs, sdk/src/prompts.rs *)

get_current_organization(c, response) ==
    Call(langsmith_get(c, "/api/v1/orgs/current"), response, "Organization")

IsPublic(p) == p.is_public
IsPrivate(p) == ~p.is_public

\* The filter with the two predicates exchanged.
FilterVisibilityInverted(repos, visibility) ==
    CASE visibility = "Public" -> SelectSeq(repos, IsPrivate)
      [] visibility = "Private" -> SelectSeq(repos, IsPublic)
      [] visibility = "Any" -> repos

\* The visibility filter of PromptClient::list and ::search
FilterVisibility(repos, visibility) ==
    CASE visibility = "Public" -> SelectSeq(repos, IsPublic)
      [] visibility = "Private" -> SelectSeq(repos, IsPrivate)
      [] visibility = "Any" -> repos

\* A filter that asks for the page again when it has removed a prompt.
FilteredWithTopUp(call, visibility) ==
    IF call.result.tag # "Ok" THEN call
    ELSE LET kept == FilterVisibility(call.result.value.items, visibility) IN
         [call EXCEPT !.result = ResOk(Json("Vec<Prompt>", kept)),
                      !.reqs = IF Len(kept) < Len(call.result.value.items)
                               THEN call.reqs \o call.reqs ELSE call.reqs]

\* let filtered = match visibility { .. }; Ok(filtered)
Filtered(call, visibility) ==
    IF call.result.tag # "Ok" THEN call
    ELSE [call EXCEPT !.result =
            ResOk(Json("Vec<Prompt>",
                       FilterVisibility(call.result.value.items, visibility)))]

\* PromptClient::list
prompts_list(c, limit, offset, visibility, response) ==
    LET path == "/api/v1/repos/?limit=" \o ToString(UnwrapOr(limit, 20))
                \o "&offset=" \o ToString(UnwrapOr(offset, 0)) IN
    Filtered(Call(langsmith_get(c, path), response, "ListReposResponse"),
             UnwrapOr(visibility, "Any"))

\* PromptClient::search
prompts_search(c, query, limit, visibility, response) ==
    LET path == "/api/v1/repos/?query=" \o query \o "&limit="
                \o ToString(UnwrapOr(limit, 20)) IN
    Filtered(Call(langsmith_get(c, path), response, "ListReposResponse"),
             UnwrapOr(visibility, "Any"))

\* PromptClient::get
prompts_get(c, handle, response) ==
    Call(langsmith_get(c, "/api/v1/repos/" \o handle), response, "PromptResponse")

\* PromptClient::create_repo
prompts_create_repo(c, repo_handle, response) ==
    Call(WithJson(langsmith_post(c, "/api/v1/repos"),
                  [repo_handle |-> repo_handle, is_public |-> FALSE]),
         response, "CreateRepoResponse")

\* PromptClient::push
prompts_push(c, owner, repo, commit_request, response) ==
    Call(WithJson(langsmith_post(c, "/api/v1/commits/" \o owner \o "/" \o repo),
                  commit_request),
         response, "CommitResponse")

---------------------------------------------------------------------------
(* sdk/src/assistants.rs: AssistantClient *)

\* AssistantSearchRequest serialized with every field written, None as null.
AssistantSearchRequestWithNulls(query, limit, offset) ==
    [query |-> IF IsSome(query) THEN JStr(query[1]) ELSE JNull,
     limit |-> IF IsSome(limit) THEN [t |-> "num", v |-> limit[1]] ELSE JNull,
     offset |-> IF IsSome(offset) THEN [t |-> "num", v |-> offset[1]] ELSE JNull]

\* AssistantSearchRequest as .json() serializes it: each of the three fields
\* has skip_serializing_if = "Option::is_none", so the object holds the
\* fields that are Some and no others.
AssistantSearchRequest(query, limit, offset) ==
    LET fields == [query |-> query, limit |-> limit, offset |-> offset] IN
    [f \in {g \in DOMAIN fields : IsSome(fields[g])} |->
       IF f = "query" THEN JStr(fields[f][1]) ELSE [t |-> "num", v |-> fields[f][1]]]

assistants_list(c, limit, offset, response) ==
    Call(WithJson(langgraph_post(c, "/assistants/search"),
                  AssistantSearchRequest(None, limit, offset)),
         response, "Vec<Assistant>")

assistants_search(c, query, limit, response) ==
    Call(WithJson(langgraph_post(c, "/assistants/search"),
                  AssistantSearchRequest(Some(query), limit, None)),
         response, "Vec<Assistant>")

assistants_get(c, assistant_id, response) ==
    Call(langgraph_get(c, "/assistants/" \o assistant_id), response, "Assistant")

assistants_create(c, request, response) ==
    Call(WithJson(langgraph_post(c, "/assistants"), request), response, "Assistant")

assistants_update(c, assistant_id, request, response) ==
    Call(WithJson(langgraph_patch(c, "/assistants/" \o assistant_id), request),
         response, "Assistant")

assistants_delete(c, assistant_id, response) ==
    SendIgnoringBody(langgraph_delete(c, "/assistants/" \o assistant_id), response)

---------------------------------------------------------------------------
(* cli/src/config.rs, cli/src/output.rs, cli/src/main.rs *)

ConfigOf(ls, lg, o, w, gh, fmt) ==
    [langsmith_api_key |-> ls, langgraph_api_key |-> lg, organization_id |-> o,
     workspace_id |-> w, github_integration_id |-> gh, output_format |-> fmt]

\* Config::default()
ConfigDefault == ConfigOf(None, None, None, None, None, "table")

\* Config::load_from_file: a missing file is the default configuration; a
\* file that cannot be read or does not parse is an error.
load_from_file(f) ==
    CASE f.state = "missing" -> [ok |-> TRUE, val |-> ConfigDefault]
      [] f.state = "ok" -> [ok |-> TRUE, val |-> f.content]
      [] OTHER -> [ok |-> FALSE, val |-> ConfigDefault]

ConfigLoadFileWins(e, f) ==
    LET r == load_from_file(f)
        base == IF r.ok THEN r.val ELSE ConfigDefault IN
    ConfigOf(IF IsSome(base.langsmith_api_key) THEN base.langsmith_api_key
             ELSE e.LANGSMITH_API_KEY,
             IF IsSome(base.langgraph_api_key) THEN base.langgraph_api_key
             ELSE e.LANGGRAPH_API_KEY,
             IF IsSome(base.organization_id) THEN base.organization_id
             ELSE e.LANGSMITH_ORGANIZATION_ID,
             IF IsSome(base.workspace_id) THEN base.workspace_id
             ELSE e.LANGSMITH_WORKSPACE_ID,
             IF IsSome(base.github_integration_id) THEN base.github_integration_id
             ELSE e.LANGGRAPH_GITHUB_INTEGRATION_ID,
             UnwrapOr(e.LANGSTAR_OUTPUT_FORMAT, base.output_format))

\* Config::load: load_from_file().unwrap_or_default(), then each environment
\* variable that is set overrides its field.
ConfigLoad(e, f) ==
    LET r == load_from_file(f)
        base == IF r.ok THEN r.val ELSE ConfigDefault IN
    ConfigOf(IF IsSome(e.LANGSMITH_API_KEY) THEN e.LANGSMITH_API_KEY
             ELSE base.langsmith_api_key,
             IF IsSome(e.LANGGRAPH_API_KEY) THEN e.LANGGRAPH_API_KEY
             ELSE base.langgraph_api_key,
             IF IsSome(e.LANGSMITH_ORGANIZATION_ID) THEN e.LANGSMITH_ORGANIZATION_ID
             ELSE base.organization_id,
             IF IsSome(e.LANGSMITH_WORKSPACE_ID) THEN e.LANGSMITH_WORKSPACE_ID
             ELSE base.workspace_id,
             IF IsSome(e.LANGGRAPH_GITHUB_INTEGRATION_ID)
             THEN e.LANGGRAPH_GITHUB_INTEGRATION_ID
             ELSE base.github_integration_id,
             UnwrapOr(e.LANGSTAR_OUTPUT_FORMAT, base.output_format))

\* Config::to_auth_config
to_auth_config(cfg) ==
    AuthConfigNew(cfg.langsmith_api_key, cfg.langgraph_api_key, cfg.organization_id,
                  cfg.workspace_id)

\* OutputFormat::from_str, on the strings the model uses
OutputFormatFromStr(s) ==
    CASE s \in {"json", "JSON"} -> [ok |-> TRUE, val |-> "Json"]
      [] s \in {"table", "TABLE"} -> [ok |-> TRUE, val |-> "Table"]
      [] OTHER -> [ok |-> FALSE, val |-> ""]

\* The command's result: still running, Ok(()), Err(e) or a panic.
Running == [status |-> "running", error |-> ""]
Succeeded == [status |-> "ok", error |-> ""]
Failed(e) == [status |-> "err", error |-> e]
Panicked == [status |-> "panic", error |-> ""]

\* `?` on an SDK result at the end of a command
Finish(result) == IF result.tag = "Ok" THEN Succeeded ELSE Failed(result.tag)

NoClient == LangchainClientNew(AuthConfigNew(None, None, None, None))

\* The state a process starts in, whatever its inputs.
StartOfRun ==
    /\ pc = "run"
    /\ config = ConfigDefault
    /\ client = NoClient
    /\ sent = <<>>
    /\ resp = NoResponse
    /\ called = "none"
    /\ last = NoResult
    /\ deployment = DeploymentDefault
    /\ deployment_url = None
    /\ poll_count = 0 /\ elapsed = 0 /\ poll_interval = 0
    /\ outcome = Running
    /\ org = None
    /\ integration_id = None
    /\ integrations = <<>>
    /\ returned = None

\* run(): Config::load, then the output format from --format or the
\* configuration, then the command is dispatched.
NothingRequired(c) == FALSE

\* #[arg(long, required = true)] deployment: String, on every assistant
\* subcommand: without the flag Cli::parse prints clap's error and exits.
RequiredMissing(c) == c.family = "assistant" /\ ~c.deployment_given

Run ==
    /\ pc = "run"
    /\ IF RequiredMissing(cmd)
       THEN /\ config' = config
            /\ pc' = "done"
            /\ outcome' = Failed("the following required arguments were not provided: "
                                   \o "--deployment <DEPLOYMENT>")
       ELSE /\ config' = ConfigLoad(env, file)
            /\ LET format == OutputFormatFromStr(UnwrapOr(cmd.format,
                                                          config'.output_format)) IN
               IF format.ok
               THEN pc' = "execute" /\ outcome' = outcome
               ELSE pc' = "done" /\ outcome' = Failed("Invalid output format")
    /\ UNCHANGED <<inputs, sdkVars, deployment, deployment_url, poll_count, elapsed,
                   poll_interval, org,
                   integration_id, integrations, returned>>

---------------------------------------------------------------------------
(* cli/src/commands/prompt.rs *)

\* A scoping in which a flag fills in a missing ID and never replaces one.
apply_scoping_to_unset(c, flag_org_id, flag_workspace_id) ==
    LET c1 == IF IsSome(flag_org_id) /\ IsNone(c.organization_id)
              THEN with_organization_id(c, flag_org_id[1])
              ELSE c IN
    IF IsSome(flag_workspace_id) /\ IsNone(c.workspace_id)
    THEN with_workspace_id(c1, flag_workspace_id[1])
    ELSE c1

\* PromptCommands::apply_scoping
apply_scoping(c, flag_org_id, flag_workspace_id) ==
    LET c1 == IF IsSome(flag_org_id) THEN with_organization_id(c, flag_org_id[1])
              ELSE c IN
    IF IsSome(flag_workspace_id) THEN with_workspace_id(c1, flag_workspace_id[1])
    ELSE c1

\* A cut that looks at the length alone.
First8PanicsWhenShort(id) == Len(id) < 8

\* &id[..8]: panics when the string is shorter than 8 bytes, or when byte 8
\* is not a character boundary ("ws-flag\u{e9}" is 7 bytes followed by the
\* two bytes of its last character).
First8Panics(id) ==
    LET len == IF id = "ws-flagé" THEN 9 ELSE Len(id)
        is_char_boundary == id # "ws-flagé"
    IN len < 8 \/ ~is_char_boundary

\* PromptCommands::print_scope_info
print_scope_info(c) ==
    IF IsSome(c.workspace_id)
    THEN [panicked |-> First8Panics(c.workspace_id[1]), scope |-> "Workspace"]
    ELSE IF IsSome(c.organization_id)
         THEN [panicked |-> First8Panics(c.organization_id[1]),
               scope |-> "Organization"]
         ELSE [panicked |-> FALSE, scope |-> "Global"]

\* A default that looks at the organization ID alone.
determine_visibility_by_organization(c, public_flag) ==
    IF IsSome(c.organization_id) THEN (IF public_flag THEN "Public" ELSE "Private")
    ELSE "Any"

\* PromptCommands::determine_visibility
determine_visibility(c, public_flag) ==
    LET is_scoped == IsSome(c.organization_id) \/ IsSome(c.workspace_id) IN
    IF is_scoped THEN (IF public_flag THEN "Public" ELSE "Private") ELSE "Any"

RawOrganization(id, personal) == [id |-> id, is_personal |-> personal]
RawPrompt(handle, public) ==
    [id |-> JStr("p-1"), repo_handle |-> handle, is_public |-> public]

FailureResponses ==
    {TransportFailure, ErrorResponse(404, "text", "not found"),
     ErrorResponse(500, "unreadable", ""), ErrorResponse(200, "text", "")}

ReposResponses ==
    FailureResponses
    \cup {JsonResponse(200, Json("repos", rs)) :
            rs \in {<<>>,
                    <<RawPrompt(JStr("me/private"), JAbsent),
                      RawPrompt(JStr("me/public"), JBool("true"))>>,
                    <<RawPrompt(JStr("me/public"), JBool("true")),
                      RawPrompt(JStr("me/private"), JBool("false")),
                      RawPrompt(JStr("me/other"), JBool("true"))>>,
                    <<RawPrompt(JNull, JBool("true"))>>}}

RepoResponses ==
    FailureResponses
    \cup {JsonResponse(200, Json("repo", <<RawPrompt(JStr("me/demo"), JBool("false"))>>))}

\* What every prompt subcommand starts with.
ScopedClient ==
    apply_scoping(LangchainClientNew(to_auth_config(config)), cmd.organization_id,
                  cmd.workspace_id)

PromptList ==
    /\ pc = "execute" /\ cmd.family = "prompt" /\ cmd.sub = "list"
    /\ client' = ScopedClient
    /\ LET visibility == determine_visibility(client', cmd.public) IN
       IF print_scope_info(client').panicked
       THEN /\ outcome' = Panicked
            /\ UNCHANGED <<sent, resp, called, last>>
       ELSE \E r \in ReposResponses :
              LET call == prompts_list(client', Some(cmd.limit), Some(0), Some(visibility), r) IN
              /\ sent' = sent \o call.reqs
              /\ resp' = call.resp
              /\ called' = "prompts.list"
              /\ last' = call.result
              /\ outcome' = Finish(call.result)
    /\ pc' = "done"
    /\ UNCHANGED <<inputs, config, deployment, deployment_url, poll_count, elapsed,
                   poll_interval, org,
                   integration_id, integrations, returned>>

PromptSearch ==
    /\ pc = "execute" /\ cmd.family = "prompt" /\ cmd.sub = "search"
    /\ client' = ScopedClient
    /\ LET visibility == determine_visibility(client', cmd.public) IN
       IF print_scope_info(client').panicked
       THEN /\ outcome' = Panicked
            /\ UNCHANGED <<sent, resp, called, last>>
       ELSE \E r \in ReposResponses :
              LET call == prompts_search(client', "rag", Some(cmd.limit), Some(visibility), r) IN
              /\ sent' = sent \o call.reqs
              /\ resp' = call.resp
              /\ called' = "prompts.search"
              /\ last' = call.result
              /\ outcome' = Finish(call.result)
    /\ pc' = "done"
    /\ UNCHANGED <<inputs, config, deployment, deployment_url, poll_count, elapsed,
                   poll_interval, org,
                   integration_id, integrations, returned>>

PromptGet ==
    /\ pc = "execute" /\ cmd.family = "prompt" /\ cmd.sub = "get"
    /\ client' = ScopedClient
    /\ \E r \in RepoResponses :
         LET call == prompts_get(client', "me/demo", r) IN
         /\ sent' = sent \o call.reqs
         /\ resp' = call.resp
         /\ called' = "prompts.get"
         /\ last' = call.result
         /\ outcome' = Finish(call.result)
    /\ pc' = "done"
    /\ UNCHANGED <<inputs, config, deployment, deployment_url, poll_count, elapsed,
                   poll_interval, org,
                   integration_id, integrations, returned>>

\* Push: scoping, then the organization is fetched when neither the flag nor
\* the client has one; a failed fetch is a warning.
PromptPushOrganization ==
    /\ pc = "execute" /\ cmd.family = "prompt" /\ cmd.sub = "push"
    /\ LET c == ScopedClient IN
       IF IsNone(cmd.organization_id) /\ IsNone(c.organization_id)
       THEN \E r \in FailureResponses
                   \cup {JsonResponse(200, Json("organization",
                                                <<RawOrganization(i, p)>>)) :
                           i \in {JStr("org-server"), JNull},
                           p \in {JBool("false"), JAbsent}} :
              LET call == get_current_organization(c, r)
                  id == IF call.result.tag = "Ok" THEN call.result.value.items[1].id
                        ELSE None IN
              /\ client' = IF IsSome(id) THEN with_organization_id(c, id[1]) ELSE c
              /\ org' = id
              /\ sent' = sent \o call.reqs
              /\ resp' = call.resp
              /\ called' = "get_current_organization"
              /\ last' = call.result
       ELSE /\ client' = c
            /\ UNCHANGED <<org, sent, resp, called, last>>
    /\ pc' = "push_probe"
    /\ UNCHANGED <<inputs, config, deployment, deployment_url, poll_count, elapsed,
                   poll_interval, outcome,
                   integration_id, integrations, returned>>

PromptPushProbeAlwaysCreates ==
    /\ pc = "push_probe"
    /\ \E r \in RepoResponses :
         LET call == prompts_get(client, "me/demo", r) IN
         /\ sent' = sent \o call.reqs
         /\ resp' = call.resp
         /\ called' = "prompts.get"
         /\ last' = call.result
         /\ pc' = "push_create"
    /\ UNCHANGED <<inputs, config, client, deployment, deployment_url, poll_count, elapsed,
                   poll_interval, outcome, org, integration_id, integrations, returned>>

\* Push: does the repository exist?
PromptPushProbe ==
    /\ pc = "push_probe"
    /\ \E r \in RepoResponses :
         LET call == prompts_get(client, "me/demo", r) IN
         /\ sent' = sent \o call.reqs
         /\ resp' = call.resp
         /\ called' = "prompts.get"
         /\ last' = call.result
         /\ pc' = IF call.result.tag = "Ok" THEN "push_commit" ELSE "push_create"
    /\ UNCHANGED <<inputs, config, client, deployment, deployment_url, poll_count, elapsed,
                   poll_interval,
                   outcome, org, integration_id, integrations, returned>>

\* Push: the repository is created; a failure is a warning.
PromptPushCreateRepo ==
    /\ pc = "push_create"
    /\ \E r \in RepoResponses :
         LET call == prompts_create_repo(client, "me/demo", r) IN
         /\ sent' = sent \o call.reqs
         /\ resp' = call.resp
         /\ called' = "prompts.create_repo"
         /\ last' = call.result
    /\ pc' = "push_commit"
    /\ UNCHANGED <<inputs, config, client, deployment, deployment_url, poll_count, elapsed,
                   poll_interval,
                   outcome, org, integration_id, integrations, returned>>

\* Push: the commit, whose failure is the command's.
PromptPushCommit ==
    /\ pc = "push_commit"
    /\ \E r \in FailureResponses
              \cup {JsonResponse(200, Json("commit",
                                           <<[commit_hash |-> JStr("abc123")]>>))} :
         LET call == prompts_push(client, "me", "demo",
                                  [manifest |-> "prompt", parent_commit |-> None], r) IN
         /\ sent' = sent \o call.reqs
         /\ resp' = call.resp
         /\ called' = "prompts.push"
         /\ last' = call.result
         /\ outcome' = Finish(call.result)
    /\ pc' = "done"
    /\ UNCHANGED <<inputs, config, client, deployment, deployment_url, poll_count, elapsed,
                   poll_interval,
                   org, integration_id, integrations, returned>>

---------------------------------------------------------------------------
(* cli/src/commands/assistant.rs *)

\* Iterator::find over the listed deployments: the index of the first whose
\* name or id is the target, 0 when there is none.
FindByIdOnly(deployments, target) ==
    LET m == {i \in 1..Len(deployments) : deployments[i].id = target} IN
    IF m = {} THEN 0 ELSE CHOOSE i \in m : \A j \in m : i <= j

FindDeployment(deployments, target) ==
    LET m == {i \in 1..Len(deployments) :
                deployments[i].name = target \/ deployments[i].id = target} IN
    IF m = {} THEN 0 ELSE CHOOSE i \in m : \A j \in m : i <= j

resolve_deployment_url_or_default(cfg, deployment_name_or_id, response) ==
    LET auth == AuthConfigNew(cfg.langsmith_api_key, None, None, cfg.workspace_id)
        call == deployments_list(LangchainClientNew(auth), Some(100), Some(0), None, response)
    IN
    IF call.result.tag # "Ok"
    THEN [ok |-> FALSE, url |-> "", err |-> call.result.tag, call |-> call]
    ELSE LET resources == call.result.value.items
             i == FindDeployment(resources, deployment_name_or_id) IN
         IF i = 0 THEN [ok |-> TRUE, url |-> LANGGRAPH_API_BASE, err |-> "", call |-> call]
         ELSE LET u == custom_url(resources[i]) IN
              IF IsNone(u)
              THEN [ok |-> TRUE, url |-> LANGGRAPH_API_BASE, err |-> "", call |-> call]
              ELSE [ok |-> TRUE, url |-> u[1], err |-> "", call |-> call]

\* resolve_deployment_url
resolve_deployment_url(cfg, deployment_name_or_id, response) ==
    LET auth == AuthConfigNew(cfg.langsmith_api_key, None, None, cfg.workspace_id)
        call == deployments_list(LangchainClientNew(auth), Some(100), Some(0), None, response)
    IN
    IF call.result.tag # "Ok"
    THEN [ok |-> FALSE, url |-> "", err |-> call.result.tag, call |-> call]
    ELSE LET resources == call.result.value.items
             i == FindDeployment(resources, deployment_name_or_id) IN
         IF i = 0 THEN [ok |-> FALSE, url |-> "", err |-> "not found", call |-> call]
         ELSE LET u == custom_url(resources[i]) IN
              IF IsNone(u)
              THEN [ok |-> FALSE, url |-> "", err |-> "has no custom_url", call |-> call]
              ELSE [ok |-> TRUE, url |-> u[1], err |-> "", call |-> call]

SC(kind, url, integration) ==
    [kind |-> kind, custom_url |-> url, integration_id |-> integration]
RawDeployment(id, name, source, sc, status) ==
    [id |-> id, name |-> name, source |-> source, source_config |-> sc, status |-> status]

\* The deployments a list response is made of.  Two share the name "demo";
\* the name of one is the id of another.
ListedDeployments ==
    {RawDeployment("d1", "demo", "github",
                   SC("object", JStr("https://dep-1.example"), JStr("int-1")),
                   JStr("READY")),
     RawDeployment("d2", "demo", "github", SC("object", JNull, JStr("int-2")),
                   JStr("AWAITING_DATABASE")),
     RawDeployment("d3", "d2", "external_docker",
                   SC("object", JStr("https://dep-3.example"), JNull), JAbsent),
     RawDeployment("d4", "other", "github", SC("null", JAbsent, JAbsent),
                   JStr("READY")),
     RawDeployment("d5", "demo", "github",
                   SC("object", JStr("https://dep-5.example"), JAbsent),
                   JStr("PAUSED"))}

RECURSIVE SeqsUpTo(_, _)
SeqsUpTo(S, n) ==
    IF n = 0 THEN {<<>>}
    ELSE LET shorter == SeqsUpTo(S, n - 1) IN
         shorter \cup {Append(s, x) : s \in shorter, x \in S}

DeploymentsListResponses ==
    {TransportFailure, ErrorResponse(403, "text", "forbidden"),
     ErrorResponse(200, "text", "")}
    \cup {JsonResponse(200, Json("deployments", ds)) :
            ds \in SeqsUpTo(ListedDeployments, MaxDeployments)}

AssistantResponses ==
    FailureResponses
    \cup {JsonResponse(200, Json("assistant", <<[assistant_id |-> "a1"]>>)),
          JsonResponse(200, Json("assistants", <<[assistant_id |-> "a1"]>>)),
          ErrorResponse(204, "text", "")}

\* input.trim().to_lowercase(), on the answers the model uses
TrimLower(input) ==
    CASE input \in {"y\n", "Y\n", " y \n"} -> "y"
      [] input \in {"yes\n", "YES\n"} -> "yes"
      [] input = "no\n" -> "no"
      [] input \in {"\n", ""} -> ""

\* execute: the deployment is resolved, then the client is built on its URL.
AssistantResolve ==
    /\ pc = "execute" /\ cmd.family = "assistant"
    /\ \E r \in DeploymentsListResponses :
         LET res == resolve_deployment_url(config, cmd.deployment, r) IN
         /\ sent' = sent \o res.call.reqs
         /\ resp' = res.call.resp
         /\ called' = "deployments.list"
         /\ last' = res.call.result
         /\ IF res.ok
            THEN /\ deployment_url' = Some(res.url)
                 /\ client' = with_langgraph_url(LangchainClientNew(to_auth_config(config)),
                                                 res.url)
                 /\ pc' = cmd.sub
                 /\ outcome' = outcome
            ELSE /\ deployment_url' = None
                 /\ client' = client
                 /\ pc' = "done"
                 /\ outcome' = Failed(res.err)
    /\ UNCHANGED <<inputs, config, deployment, poll_count, elapsed, poll_interval, org,
                   integration_id, integrations, returned>>

AssistantList ==
    /\ pc = "list" /\ cmd.family = "assistant"
    /\ \E r \in AssistantResponses :
         LET call == assistants_list(client, Some(20), Some(0), r) IN
         /\ sent' = sent \o call.reqs
         /\ resp' = call.resp
         /\ called' = "assistants.list"
         /\ last' = call.result
         /\ outcome' = Finish(call.result)
    /\ pc' = "done"
    /\ UNCHANGED <<inputs, config, client, deployment, deployment_url, poll_count, elapsed,
                   poll_interval, org,
                   integration_id, integrations, returned>>

AssistantSearch ==
    /\ pc = "search" /\ cmd.family = "assistant"
    /\ \E r \in AssistantResponses :
         LET call == assistants_search(client, "rag", Some(20), r) IN
         /\ sent' = sent \o call.reqs
         /\ resp' = call.resp
         /\ called' = "assistants.search"
         /\ last' = call.result
         /\ outcome' = Finish(call.result)
    /\ pc' = "done"
    /\ UNCHANGED <<inputs, config, client, deployment, deployment_url, poll_count, elapsed,
                   poll_interval, org,
                   integration_id, integrations, returned>>

AssistantGet ==
    /\ pc = "get" /\ cmd.family = "assistant"
    /\ \E r \in AssistantResponses :
         LET call == assistants_get(client, "a1", r) IN
         /\ sent' = sent \o call.reqs
         /\ resp' = call.resp
         /\ called' = "assistants.get"
         /\ last' = call.result
         /\ outcome' = Finish(call.result)
    /\ pc' = "done"
    /\ UNCHANGED <<inputs, config, client, deployment, deployment_url, poll_count, elapsed,
                   poll_interval, org,
                   integration_id, integrations, returned>>

\* Create: the configuration JSON is parsed first; a parse error ends the
\* command.
AssistantCreate ==
    /\ pc = "create" /\ cmd.family = "assistant"
    /\ IF cmd.config = "invalid"
       THEN /\ outcome' = Failed("Json")
            /\ UNCHANGED <<sent, resp, called, last>>
       ELSE \E r \in AssistantResponses :
              LET call == assistants_create(client,
                                [graph_id |-> "g1", name |-> "a", config |-> cmd.config],
                                r) IN
              /\ sent' = sent \o call.reqs
              /\ resp' = call.resp
              /\ called' = "assistants.create"
              /\ last' = call.result
              /\ outcome' = Finish(call.result)
    /\ pc' = "done"
    /\ UNCHANGED <<inputs, config, client, deployment, deployment_url, poll_count, elapsed,
                   poll_interval, org,
                   integration_id, integrations, returned>>

AssistantUpdate ==
    /\ pc = "update" /\ cmd.family = "assistant"
    /\ IF cmd.config = "invalid"
       THEN /\ outcome' = Failed("Json")
            /\ UNCHANGED <<sent, resp, called, last>>
       ELSE \E r \in AssistantResponses :
              LET call == assistants_update(client, "a1",
                                [name |-> None, config |-> cmd.config], r) IN
              /\ sent' = sent \o call.reqs
              /\ resp' = call.resp
              /\ called' = "assistants.update"
              /\ last' = call.result
              /\ outcome' = Finish(call.result)
    /\ pc' = "done"
    /\ UNCHANGED <<inputs, config, client, deployment, deployment_url, poll_count, elapsed,
                   poll_interval, org,
                   integration_id, integrations, returned>>

\* A delete that sends its request and reads the answer afterwards.
AssistantDeleteAsksAfterwards ==
    /\ pc = "delete" /\ cmd.family = "assistant"
    /\ \E input \in {None, Some("y\n"), Some("YES\n"), Some(" y \n"), Some("no\n"),
                     Some("")},
          r \in AssistantResponses :
         LET call == assistants_delete(client, "a1", r) IN
         /\ returned' = IF cmd.force THEN returned
                        ELSE Some([of |-> "read_line", value |-> input])
         /\ sent' = sent \o call.reqs
         /\ resp' = call.resp
         /\ called' = "assistants.delete"
         /\ last' = call.result
         /\ outcome' = IF ~cmd.force /\ IsNone(input) THEN Failed("IoError")
                       ELSE IF ~cmd.force /\ TrimLower(input[1]) \notin {"y", "yes"}
                       THEN Succeeded
                       ELSE Finish(call.result)
    /\ pc' = "done"
    /\ UNCHANGED <<inputs, config, client, deployment, deployment_url, poll_count, elapsed,
                   poll_interval, org, integration_id, integrations>>

\* Delete: unless --force is given a line is read from stdin and kept in
\* `returned` (None: the read fails, as on bytes that are not UTF-8, and ?
\* returns the error); anything but "y" or "yes" cancels; otherwise the
\* assistant is deleted.
AssistantDelete ==
    /\ pc = "delete" /\ cmd.family = "assistant"
    /\ \E input \in {None, Some("y\n"), Some("YES\n"), Some(" y \n"), Some("no\n"),
                     Some("")},
          r \in AssistantResponses :
         /\ returned' = IF cmd.force THEN returned
                        ELSE Some([of |-> "read_line", value |-> input])
         /\ IF ~cmd.force /\ IsNone(input)
            THEN /\ outcome' = Failed("IoError")
                 /\ UNCHANGED <<sent, resp, called, last>>
            ELSE IF ~cmd.force /\ TrimLower(input[1]) \notin {"y", "yes"}
            THEN /\ outcome' = Succeeded
                 /\ UNCHANGED <<sent, resp, called, last>>
            ELSE LET call == assistants_delete(client, "a1", r) IN
                 /\ sent' = sent \o call.reqs
                 /\ resp' = call.resp
                 /\ called' = "assistants.delete"
                 /\ last' = call.result
                 /\ outcome' = Finish(call.result)
    /\ pc' = "done"
    /\ UNCHANGED <<inputs, config, client, deployment, deployment_url, poll_count, elapsed,
                   poll_interval, org, integration_id, integrations>>

\* The command is invoked again: a new process, with the same environment,
\* config file and command line.
NextInvocation ==
    /\ pc = "done"
    /\ pc' = "run"
    /\ config' = ConfigDefault
    /\ client' = NoClient
    /\ sent' = <<>>
    /\ resp' = NoResponse
    /\ called' = "none"
    /\ last' = NoResult
    /\ deployment' = DeploymentDefault
    /\ deployment_url' = None
    /\ poll_count' = 0 /\ elapsed' = 0 /\ poll_interval' = 0
    /\ outcome' = Running
    /\ org' = None
    /\ integration_id' = None
    /\ integrations' = <<>>
    /\ returned' = None
    /\ UNCHANGED inputs

---------------------------------------------------------------------------
(* cli/src/commands/graph.rs: create *)

\* The GitHub deployment that auto-discovery picks: the first with source
\* Github and a source_config; 0 when there is none.
FindLastGithubDeployment(deployments) ==
    LET m == {i \in 1..Len(deployments) :
                deployments[i].source = "Github" /\ IsSome(deployments[i].source_config)}
    IN IF m = {} THEN 0 ELSE CHOOSE i \in m : \A j \in m : i >= j

FindGithubDeployment(deployments) ==
    LET m == {i \in 1..Len(deployments) :
                deployments[i].source = "Github" /\ IsSome(deployments[i].source_config)}
    IN IF m = {} THEN 0 ELSE CHOOSE i \in m : \A j \in m : i <= j

\* source_config.get("integration_id").and_then(|v| v.as_str())
DiscoveredIntegrationId(d) ==
    LET v == ValueGet(d.source_config[1], "integration_id") IN
    IF IsNone(v) THEN None ELSE AsStr(v[1])

\* The source_config and source_revision_config of the create request, or
\* the validation error.
CreateRequestFor(c, integration) ==
    CASE c.source = "github" ->
            IF IsNone(c.repo_url) THEN [ok |-> FALSE, err |-> "repo_url is required",
                                        request |-> <<>>]
            ELSE IF IsNone(c.branch) THEN [ok |-> FALSE, err |-> "branch is required",
                                           request |-> <<>>]
            ELSE [ok |-> TRUE, err |-> "",
                  request |-> <<[name |-> c.name, source |-> c.source,
                                 source_config |->
                                    [integration_id |-> integration,
                                     repo_url |-> c.repo_url[1]],
                                 source_revision_config |->
                                    <<[repo_ref |-> c.branch[1],
                                       langgraph_config_path |-> c.config_path]>>]>>]
      [] c.source = "external_docker" ->
            IF IsNone(c.image_uri) THEN [ok |-> FALSE, err |-> "image_uri is required",
                                         request |-> <<>>]
            ELSE [ok |-> TRUE, err |-> "",
                  request |-> <<[name |-> c.name, source |-> c.source,
                                 source_config |->
                                    [integration_id |-> None,
                                     image_path |-> c.image_uri[1]],
                                 source_revision_config |-> <<>>]>>]
      [] OTHER -> [ok |-> FALSE, err |-> "Invalid source type", request |-> <<>>]

\* Create, up to the request: the environment variables are parsed, the
\* integration ID is taken from the flag, else the configuration, else the
\* existing deployments; then the source is validated.
GraphCreatePrepare ==
    /\ pc = "execute" /\ cmd.family = "graph" /\ cmd.sub = "create"
    /\ client' = LangchainClientNew(to_auth_config(config))
    /\ IF ~cmd.env_ok
       THEN /\ pc' = "done"
            /\ outcome' = Failed("Invalid environment variable format")
            /\ UNCHANGED <<sent, resp, called, last, integration_id, integrations, returned>>
       ELSE IF cmd.source # "github" \/ IsSome(cmd.integration_id)
               \/ IsSome(config.github_integration_id)
       THEN LET id == IF cmd.source # "github" THEN None
                      ELSE IF IsSome(cmd.integration_id) THEN cmd.integration_id
                      ELSE config.github_integration_id
                built == CreateRequestFor(cmd, id) IN
            /\ integration_id' = id
            /\ pc' = IF built.ok THEN "create" ELSE "done"
            /\ outcome' = IF built.ok THEN outcome ELSE Failed(built.err)
            /\ UNCHANGED <<sent, resp, called, last>>
       ELSE \E r \in DeploymentsListResponses :
              LET call == deployments_list(client', Some(100), Some(0), None, r)
                  i == IF call.result.tag = "Ok"
                       THEN FindGithubDeployment(call.result.value.items) ELSE 0
                  id == IF i = 0 THEN None
                        ELSE DiscoveredIntegrationId(call.result.value.items[i])
                  built == CreateRequestFor(cmd, id) IN
              /\ sent' = sent \o call.reqs
              /\ resp' = call.resp
              /\ called' = "deployments.list"
              /\ last' = call.result
              /\ integration_id' = id
              /\ IF call.result.tag # "Ok"
                 THEN pc' = "done" /\ outcome' = Failed(call.result.tag)
                 ELSE IF i = 0
                 THEN pc' = "done" /\ outcome' = Failed("GitHub integration ID not found")
                 ELSE IF IsNone(id)
                 THEN pc' = "done" /\ outcome' = Failed("integration_id is missing")
                 ELSE IF ~built.ok
                 THEN pc' = "done" /\ outcome' = Failed(built.err)
                 ELSE pc' = "create" /\ outcome' = outcome
    /\ UNCHANGED <<inputs, config, deployment, deployment_url, poll_count, elapsed,
                   poll_interval, org, integrations, returned>>

CreatedStatuses ==
    {JAbsent, JNull, JStr("READY"), JStr("AWAITING_DATABASE"), JStr("UNUSED"),
     JStr("AWAITING_DELETE"), JStr("UNKNOWN"), JStr("PAUSED")}

DeploymentResponses ==
    {TransportFailure, ErrorResponse(500, "text", "oops")}
    \cup {JsonResponse(200, Json("deployment",
                                 <<RawDeployment("d9", "new", "github",
                                                 SC("object", JNull, JStr("int-1")), st)>>)) :
            st \in CreatedStatuses}

\* Create: the request is posted; with --wait the clock is started, and 0 or
\* 5000 milliseconds pass before it is first read.
GraphCreate ==
    /\ pc = "create"
    /\ \E r \in DeploymentResponses, d \in {0, 5000} :
         LET call == deployments_create(client,
                                        CreateRequestFor(cmd, integration_id).request[1], r)
         IN
         /\ sent' = sent \o call.reqs
         /\ resp' = call.resp
         /\ called' = "deployments.create"
         /\ last' = call.result
         /\ IF call.result.tag # "Ok"
            THEN /\ pc' = "done" /\ outcome' = Failed(call.result.tag)
                 /\ deployment' = deployment /\ elapsed' = elapsed
            ELSE /\ deployment' = call.result.value.items[1]
                 /\ pc' = IF cmd.wait THEN "wait" ELSE "done"
                 /\ outcome' = IF cmd.wait THEN outcome ELSE Succeeded
                 /\ elapsed' = IF cmd.wait THEN d ELSE elapsed
    /\ UNCHANGED <<inputs, config, client, deployment_url, poll_count, poll_interval, org,
                   integration_id, integrations, returned>>

WaitIsOverOnAnyKnownStatus(d) == d.status \in {"Ready", "Unknown"}

\* if deployment.status == DeploymentStatus::Ready { break; }
WaitIsOver(d) == d.status = "Ready"

\* Duration::as_secs of a duration in milliseconds
as_secs(ms) == ms \div 1000

PollIntervalThrough30(elapsed_secs) == IF elapsed_secs <= 30 THEN 10 ELSE 30

\* let poll_interval = if elapsed < 30 { from_secs(10) } else { from_secs(30) };
PollInterval(elapsed_secs) == IF elapsed_secs < 30 THEN 10 ELSE 30

\* --wait: the top of the loop.  Ready ends the command; anything else
\* reads the clock, chooses the sleep and counts one more poll.
GraphWaitCheck ==
    /\ pc = "wait"
    /\ IF WaitIsOver(deployment)
       THEN /\ pc' = "done" /\ outcome' = Succeeded /\ poll_count' = poll_count
            /\ poll_interval' = poll_interval
       ELSE /\ poll_count < MaxPolls
            /\ pc' = "poll" /\ outcome' = outcome /\ poll_count' = poll_count + 1
            /\ poll_interval' = PollInterval(as_secs(elapsed))
    /\ UNCHANGED <<inputs, config, sdkVars, deployment, deployment_url, elapsed, org,
                   integration_id, integrations, returned>>

\* A loop that goes round again when the fetch has failed.
GraphWaitPollRetrying ==
    /\ pc = "poll"
    /\ \E r \in DeploymentResponses, latency \in {0, 9999, 10000, 60000} :
         LET call == deployments_get(client, deployment.id, r) IN
         /\ elapsed' = elapsed + 1000 * poll_interval + latency
         /\ sent' = sent \o call.reqs
         /\ resp' = call.resp
         /\ called' = "deployments.get"
         /\ last' = call.result
         /\ IF call.result.tag # "Ok"
            THEN /\ pc' = "wait" /\ outcome' = outcome
                 /\ deployment' = deployment
            ELSE /\ deployment' = call.result.value.items[1]
                 /\ pc' = "wait" /\ outcome' = outcome
    /\ UNCHANGED <<inputs, config, client, deployment_url, poll_count, poll_interval, org,
                   integration_id, integrations, returned>>

\* --wait: the sleep, then the deployment is fetched again by its ID, which
\* takes some milliseconds more.
GraphWaitPoll ==
    /\ pc = "poll"
    /\ \E r \in DeploymentResponses, latency \in {0, 9999, 10000, 60000} :
         LET call == deployments_get(client, deployment.id, r) IN
         /\ elapsed' = elapsed + 1000 * poll_interval + latency
         /\ sent' = sent \o call.reqs
         /\ resp' = call.resp
         /\ called' = "deployments.get"
         /\ last' = call.result
         /\ IF call.result.tag # "Ok"
            THEN /\ pc' = "done" /\ outcome' = Failed(call.result.tag)
                 /\ deployment' = deployment
            ELSE /\ deployment' = call.result.value.items[1]
                 /\ pc' = "wait" /\ outcome' = outcome
    /\ UNCHANGED <<inputs, config, client, deployment_url, poll_count, poll_interval, org,
                   integration_id, integrations, returned>>

\* Delete: unless --yes is given a line is read from stdin (None: the read
\* fails, as on bytes that are not UTF-8, and unwrap panics); anything but
\* "yes" cancels; otherwise the deployment is deleted.
GraphDelete ==
    /\ pc = "execute" /\ cmd.family = "graph" /\ cmd.sub = "delete"
    /\ client' = LangchainClientNew(to_auth_config(config))
    /\ \E confirmation \in {None, Some("yes\n"), Some("YES\n"), Some("y\n"),
                            Some("no\n"), Some("")},
          r \in {TransportFailure, ErrorResponse(404, "text", "not found"),
                 ErrorResponse(204, "text", ""), ErrorResponse(200, "unreadable", "")} :
         IF ~cmd.yes /\ IsNone(confirmation)
         THEN /\ outcome' = Panicked
              /\ UNCHANGED <<sent, resp, called, last>>
         ELSE IF ~cmd.yes /\ TrimLower(confirmation[1]) # "yes"
         THEN /\ outcome' = Succeeded
              /\ UNCHANGED <<sent, resp, called, last>>
         ELSE LET call == deployments_delete(client', cmd.deployment_id, r) IN
              /\ sent' = sent \o call.reqs
              /\ resp' = call.resp
              /\ called' = "deployments.delete"
              /\ last' = call.result
              /\ outcome' = Finish(call.result)
    /\ pc' = "done"
    /\ UNCHANGED <<inputs, config, deployment, deployment_url, poll_count, elapsed,
                   poll_interval, org, integration_id, integrations, returned>>

---------------------------------------------------------------------------
(* The SDK used as a library: a client is constructed from any AuthConfig,  *)
(* rebuilt with with_organization_id / with_workspace_id, and asked for     *)
(* requests, which are executed with Deployment as the expected shape.      *)

Builders == {"langsmith_get", "langsmith_post", "langsmith_put", "control_plane_get",
             "langgraph_get", "langgraph_post", "langgraph_patch", "langgraph_delete"}

Build(b, c, path) ==
    CASE b = "langsmith_get" -> langsmith_get(c, path)
      [] b = "langsmith_post" -> langsmith_post(c, path)
      [] b = "langsmith_put" -> langsmith_put(c, path)
      [] b = "control_plane_get" -> control_plane_get(c, path)
      [] b = "langgraph_get" -> langgraph_get(c, path)
      [] b = "langgraph_post" -> langgraph_post(c, path)
      [] b = "langgraph_patch" -> langgraph_patch(c, path)
      [] b = "langgraph_delete" -> langgraph_delete(c, path)

SdkResponses ==
    {TransportFailure}
    \cup {ErrorResponse(st, b, IF b = "text" THEN "not found" ELSE "") :
            st \in {404, 500}, b \in {"unreadable", "text"}}
    \cup {ErrorResponse(st, b, "") : st \in {200, 204}, b \in {"unreadable", "text"}}
    \cup {JsonResponse(200, Json("deployment",
                                 <<RawDeployment("d1", "demo", "github", sc,
                                                 JStr("READY"))>>)) :
            sc \in {SC("absent", JAbsent, JAbsent), SC("null", JAbsent, JAbsent),
                    SC("string", JAbsent, JAbsent)}
                   \cup {SC("object", u, JStr("int-1")) :
                           u \in {JAbsent, JNull, [t |-> "num", v |-> "7"],
                                  JStr("https://dep-1.example"),
                                  JStr("https://dep-2.example")}}}
    \cup {JsonResponse(200, Json("deployment",
                                 <<RawDeployment("d1", "demo", "github",
                                                 SC("absent", JAbsent, JAbsent), st)>>)) :
            st \in CreatedStatuses}
    \cup {JsonResponse(200, Json("deployments", <<>>))}

EnvOf(ls, lg, o, w, gh, fmt) ==
    [LANGSMITH_API_KEY |-> ls, LANGGRAPH_API_KEY |-> lg,
     LANGSMITH_ORGANIZATION_ID |-> o, LANGSMITH_WORKSPACE_ID |-> w,
     LANGGRAPH_GITHUB_INTEGRATION_ID |-> gh, LANGSTAR_OUTPUT_FORMAT |-> fmt]
MissingFile == [state |-> "missing", content |-> ConfigDefault]

\* No command is running: the library is used directly.
IdleCli ==
    /\ env = EnvOf(None, None, None, None, None, None) /\ file = MissingFile /\ cmd = [family |-> "sdk"]
    /\ pc = "sdk" /\ config = ConfigDefault
    /\ deployment = DeploymentDefault /\ deployment_url = None /\ poll_count = 0
    /\ elapsed = 0 /\ poll_interval = 0
    /\ outcome = Running /\ org = None /\ integration_id = None
    /\ integrations = <<>>
    /\ returned = None

SdkInit ==
    /\ \E ls \in {None, Some("ls-key")}, lg \in {None, Some("lg-key")},
          o \in {None, Some("org-auth")}, w \in {None, Some("ws-auth")} :
         client = LangchainClientNew(AuthConfigNew(ls, lg, o, w))
    /\ sent = <<>>
    /\ resp = NoResponse
    /\ called = "none"
    /\ last = NoResult
    /\ IdleCli

SdkWithOrganizationId ==
    /\ pc = "sdk"
    /\ \E o \in {"org-0001"} : client' = with_organization_id(client, o)
    /\ UNCHANGED <<sent, resp, called, last, cliVars>>

SdkWithWorkspaceId ==
    /\ pc = "sdk"
    /\ \E w \in {"ws-00001"} : client' = with_workspace_id(client, w)
    /\ UNCHANGED <<sent, resp, called, last, cliVars>>

SdkCall ==
    /\ pc = "sdk"
    /\ Len(sent) < MaxSent
    /\ \E b \in Builders, r \in SdkResponses :
         LET call == Call(Build(b, client, "/test"), r, "Deployment") IN
         /\ sent' = sent \o call.reqs
         /\ resp' = call.resp
         /\ called' = b
         /\ last' = call.result
    /\ deployment_url' = None
    /\ UNCHANGED <<client, inputs, pc, config, deployment, poll_count, elapsed, poll_interval, outcome, org,
                   integration_id, integrations, returned>>

\* deployment.custom_url() on a Deployment a call returned
SdkCustomUrl ==
    /\ pc = "sdk"
    /\ last.tag = "Ok"
    /\ called' = "custom_url"
    /\ deployment_url' = custom_url(last.value.items[1])
    /\ UNCHANGED <<client, sent, resp, last, inputs, pc, config, deployment,
                   poll_count, elapsed, poll_interval, outcome, org, integration_id, integrations, returned>>

SdkNext == SdkWithOrganizationId \/ SdkWithWorkspaceId \/ SdkCall \/ SdkCustomUrl

SdkSpec == SdkInit /\ [][SdkNext]_vars

---------------------------------------------------------------------------
(* langstar prompt list | search | get | push *)

PromptInit ==
    /\ env \in
          {EnvOf(k, None, o, w, None, None) :
              k \in {None, Some("ls-key")}, o \in {None, Some("org-env-1")},
              w \in {None, Some("ws-env-01")}}
    /\ file \in
          {MissingFile, [state |-> "invalid", content |-> ConfigDefault]}
          \cup {[state |-> "ok", content |-> ConfigOf(None, None, o, w, None, "table")] :
                  o \in {None, Some("org-file-1")}, w \in {None, Some("ws-file-1")}}
    /\ cmd \in
          {c \in [family : {"prompt"}, sub : {"list", "search", "get", "push"},
                  organization_id : {None, Some("org-flag-1")},
                  workspace_id : {None, Some("ws-flag-1"), Some("ws-1"), Some("ws-flagé")},
                  public : BOOLEAN, limit : {20, 1}, format : {None}] :
              (c.public \/ c.limit # 20) => c.sub \in {"list", "search"}}
    /\ StartOfRun

PromptNext ==
    \/ Run
    \/ PromptList
    \/ PromptSearch
    \/ PromptGet
    \/ PromptPushOrganization
    \/ PromptPushProbe
    \/ PromptPushCreateRepo
    \/ PromptPushCommit

PromptSpec == PromptInit /\ [][PromptNext]_vars

---------------------------------------------------------------------------
(* langstar assistant list | search | get | create | update | delete *)

AssistantInit ==
    /\ env \in
          {EnvOf(ls, lg, None, w, None, None) :
              ls \in {None, Some("ls-key")}, lg \in {None, Some("lg-key")},
              w \in {None, Some("ws-env-01")}}
    /\ file = MissingFile
    /\ cmd \in
          {c \in [family : {"assistant"},
                  sub : {"list", "search", "get", "create", "update", "delete"},
                  deployment_given : BOOLEAN, deployment : {"demo", "d2", "nope"},
                  force : BOOLEAN, config : {"none", "valid", "invalid"},
                  format : {None, Some("yaml")}] :
              /\ c.force => c.sub = "delete"
              /\ c.config # "none" => c.sub \in {"create", "update"}
              /\ IsSome(c.format) => c.sub = "list"
              /\ ~c.deployment_given =>
                    c.deployment = "demo" /\ ~c.force /\ c.config = "none"}
    /\ StartOfRun

AssistantNext ==
    \/ Run
    \/ AssistantResolve
    \/ AssistantList
    \/ AssistantSearch
    \/ AssistantGet
    \/ AssistantCreate
    \/ AssistantUpdate
    \/ AssistantDelete
    \/ NextInvocation

AssistantSpec == AssistantInit /\ [][AssistantNext]_vars

---------------------------------------------------------------------------
(* langstar graph create [--wait] *)

GraphInit ==
    /\ env \in
          {EnvOf(ls, None, None, w, gh, None) :
              ls \in {None, Some("ls-key")}, w \in {None, Some("ws-env-01")},
              gh \in {None, Some("int-env")}}
    /\ file = MissingFile
    /\ cmd \in
          {c \in [family : {"graph"}, sub : {"create"}, name : {"new"},
                  source : {"github", "external_docker", "s3"},
                  repo_url : {None, Some("https://github.com/me/app")},
                  branch : {None, Some("main")},
                  integration_id : {None, Some("int-flag")},
                  config_path : {"langgraph.json", "app/graph.json"},
                  image_uri : {None, Some("docker.io/me/app")},
                  wait : BOOLEAN, env_ok : BOOLEAN, format : {None}] :
              /\ c.source # "github" =>
                    IsNone(c.repo_url) /\ IsNone(c.branch) /\ IsNone(c.integration_id)
              /\ c.source # "external_docker" => IsNone(c.image_uri)
              /\ c.source = "s3" => ~c.wait
              /\ c.config_path # "langgraph.json" => c.source = "github" /\ ~c.wait
              /\ ~c.env_ok => c.source = "external_docker" /\ IsSome(c.image_uri) /\ c.wait}
          \cup [family : {"graph"}, sub : {"delete"}, deployment_id : {"d9"},
                yes : BOOLEAN, format : {None}]
    /\ StartOfRun

GraphNext ==
    \/ Run
    \/ GraphCreatePrepare
    \/ GraphCreate
    \/ GraphWaitCheck
    \/ GraphWaitPoll
    \/ GraphDelete

GraphSpec == GraphInit /\ [][GraphNext]_vars

---------------------------------------------------------------------------
(* sdk/src/integrations.rs: IntegrationClient *)

\* IntegrationClient::list_github_integrations
list_github_integrations(c, response) ==
    Call(control_plane_get(c, "/v1/integrations/github/install"), response,
         "Vec<GitHubIntegration>")

\* IntegrationClient::list_github_repositories
list_github_repositories(c, id, response) ==
    Call(control_plane_get(c, "/v1/integrations/github/" \o id \o "/repos"), response,
         "Vec<GitHubRepository>")

HasRepositoryNamed(repos, owner, repo) ==
    \E i \in 1..Len(repos) : repos[i].name = repo

\* for r in repos { if r.owner == owner && r.name == repo { return .. } }
HasRepository(repos, owner, repo) ==
    \E i \in 1..Len(repos) : repos[i].owner = owner /\ repos[i].name = repo

\* find_integration_for_repo: the integrations are listed; a failure of the
\* listing is the function's.
FindListIntegrations ==
    /\ pc = "find"
    /\ \E r \in FailureResponses
              \cup {JsonResponse(200, Json("integrations", is)) :
                      is \in SeqsUpTo({[id |-> JStr("i1")], [id |-> JStr("i2")],
                                       [id |-> JNull]}, MaxIntegrations)} :
         LET call == list_github_integrations(client, r) IN
         /\ sent' = sent \o call.reqs
         /\ resp' = call.resp
         /\ called' = "list_github_integrations"
         /\ last' = call.result
         /\ IF call.result.tag # "Ok"
            THEN pc' = "done" /\ integrations' = integrations
            ELSE /\ pc' = "find_loop"
                 /\ integrations' = [i \in 1..Len(call.result.value.items) |->
                                       call.result.value.items[i].id]
    /\ UNCHANGED <<client, inputs, config, deployment, deployment_url, poll_count,
                   elapsed, poll_interval, outcome, org, integration_id, returned>>

\* find_integration_for_repo: one iteration of the loop over the
\* integrations, or its end.
FindNextIntegration ==
    /\ pc = "find_loop"
    /\ IF integrations = <<>>
       THEN /\ last' = ResErr("ApiError", 404,
                              "No integration found with access to "
                                \o cmd.owner \o "/" \o cmd.repo)
            /\ called' = "find_integration_for_repo"
            /\ pc' = "done"
            /\ UNCHANGED <<sent, resp, integrations>>
       ELSE \E r \in FailureResponses
                   \cup {JsonResponse(200, Json("repositories", rs)) :
                           rs \in {<<>>,
                                   <<[owner |-> JStr("me"), name |-> JStr("app")]>>,
                                   <<[owner |-> JStr("you"), name |-> JStr("app")]>>,
                                   <<[owner |-> JStr("me"), name |-> JStr("lib")],
                                     [owner |-> JStr("me"), name |-> JStr("app")]>>,
                                   <<[owner |-> JStr("me"), name |-> JStr("app")],
                                     [owner |-> JStr("me"), name |-> JNull]>>}} :
              LET id == Head(integrations)
                  call == list_github_repositories(client, id, r)
                  found == /\ call.result.tag = "Ok"
                           /\ HasRepository(call.result.value.items, cmd.owner, cmd.repo)
              IN
              /\ sent' = sent \o call.reqs
              /\ resp' = call.resp
              /\ called' = "list_github_repositories"
              /\ last' = IF found THEN ResOk(Json("String", <<id>>))
                         ELSE call.result
              /\ pc' = IF found THEN "done" ELSE "find_loop"
              /\ integrations' = Tail(integrations)
    /\ UNCHANGED <<client, inputs, config, deployment, deployment_url, poll_count,
                   elapsed, poll_interval, outcome, org, integration_id, returned>>

\* A library user holding a client calls find_integration_for_repo.
IntegrationInit ==
    /\ \E ls \in {None, Some("ls-key")}, w \in {None, Some("ws-auth")} :
         client = LangchainClientNew(AuthConfigNew(ls, None, None, w))
    /\ env = EnvOf(None, None, None, None, None, None)
    /\ file = MissingFile
    /\ cmd = [family |-> "sdk", owner |-> "me", repo |-> "app"]
    /\ pc = "find"
    /\ config = ConfigDefault
    /\ sent = <<>> /\ resp = NoResponse /\ called = "none" /\ last = NoResult
    /\ deployment = DeploymentDefault /\ deployment_url = None /\ poll_count = 0
    /\ elapsed = 0 /\ poll_interval = 0
    /\ outcome = Running /\ org = None /\ integration_id = None
    /\ integrations = <<>>
    /\ returned = None

IntegrationNext == FindListIntegrations \/ FindNextIntegration

IntegrationSpec == IntegrationInit /\ [][IntegrationNext]_vars


---------------------------------------------------------------------------
(* The functions of the prompt commands applied on their own, as the unit  *)
(* tests apply them: apply_scoping and determine_visibility on a client    *)
(* built from any AuthConfig, the visibility filter on any page.           *)

\* apply_scoping(client.clone(), org_id, workspace_id): `client` is the
\* value the caller keeps, `returned` the derived client.
ApplyScoping ==
    /\ pc = "function" /\ cmd.sub = "scope"
    /\ returned' = Some([of |-> "apply_scoping", arg |-> client,
                         value |-> apply_scoping(client, cmd.organization_id,
                                                 cmd.workspace_id)])
    /\ called' = "apply_scoping"
    /\ UNCHANGED <<client, sent, resp, last, inputs, pc, config, deployment,
                   deployment_url, poll_count, elapsed, poll_interval, outcome, org,
                   integration_id, integrations>>

\* determine_visibility(&client, public), on the client as built or on the
\* one apply_scoping returned.
DetermineVisibility ==
    /\ pc = "function" /\ cmd.sub = "scope"
    /\ \E c \in {client} \cup {returned[i].value :
                                 i \in {j \in DOMAIN returned :
                                          returned[j].of = "apply_scoping"}} :
         returned' = Some([of |-> "determine_visibility", arg |-> c,
                           value |-> determine_visibility(c, cmd.public)])
    /\ called' = "determine_visibility"
    /\ UNCHANGED <<client, sent, resp, last, inputs, pc, config, deployment,
                   deployment_url, poll_count, elapsed, poll_interval, outcome, org,
                   integration_id, integrations>>

\* The visibility filter, on the page of the command or on the page the
\* filter returned last.
FilterPage ==
    /\ pc = "function" /\ cmd.sub = "filter"
    /\ \E repos \in {cmd.page} \cup {returned[i].value : i \in DOMAIN returned} :
         returned' = Some([of |-> "filter", arg |-> repos,
                           value |-> FilterVisibility(repos, cmd.visibility)])
    /\ called' = "filter"
    /\ UNCHANGED <<client, sent, resp, last, inputs, pc, config, deployment,
                   deployment_url, poll_count, elapsed, poll_interval, outcome, org,
                   integration_id, integrations>>

\* client.deployments().list(limit, offset, filters)
DeploymentsList ==
    /\ pc = "function" /\ cmd.sub = "deployments.list"
    /\ sent = <<>>
    /\ \E r \in {TransportFailure, JsonResponse(200, Json("deployments", <<>>))} :
         LET call == deployments_list(client, cmd.limit, cmd.offset, cmd.filters, r) IN
         /\ sent' = call.reqs
         /\ resp' = call.resp
         /\ called' = "deployments.list"
         /\ last' = call.result
    /\ UNCHANGED <<client, inputs, pc, config, deployment, deployment_url, poll_count,
                   elapsed, poll_interval, outcome, org, integration_id, integrations,
                   returned>>

\* client.assistants().list(limit, offset)
AssistantsList ==
    /\ pc = "function" /\ cmd.sub = "assistants.list"
    /\ sent = <<>>
    /\ \E r \in {TransportFailure, JsonResponse(200, Json("assistants", <<>>))} :
         LET call == assistants_list(client, cmd.limit, cmd.offset, r) IN
         /\ sent' = call.reqs
         /\ resp' = call.resp
         /\ called' = "assistants.list"
         /\ last' = call.result
    /\ UNCHANGED <<client, inputs, pc, config, deployment, deployment_url, poll_count,
                   elapsed, poll_interval, outcome, org, integration_id, integrations,
                   returned>>

\* client.assistants().search(query, limit)
AssistantsSearch ==
    /\ pc = "function" /\ cmd.sub = "assistants.search"
    /\ sent = <<>>
    /\ \E r \in {TransportFailure, JsonResponse(200, Json("assistants", <<>>))} :
         LET call == assistants_search(client, cmd.query, cmd.limit, r) IN
         /\ sent' = call.reqs
         /\ resp' = call.resp
         /\ called' = "assistants.search"
         /\ last' = call.result
    /\ UNCHANGED <<client, inputs, pc, config, deployment, deployment_url, poll_count,
                   elapsed, poll_interval, outcome, org, integration_id, integrations,
                   returned>>

\* client.assistants().delete(assistant_id)
AssistantsDelete ==
    /\ pc = "function" /\ cmd.sub = "assistants.delete"
    /\ sent = <<>>
    /\ \E r \in {TransportFailure, JsonResponse(200, Json("assistant", <<>>))}
                \cup {ErrorResponse(st, b, IF b = "text" /\ st # 204 THEN "gone" ELSE "") :
                        st \in {199, 204, 299, 300, 404, 500},
                        b \in {"text", "unreadable"}} :
         LET call == assistants_delete(client, cmd.id, r) IN
         /\ sent' = call.reqs
         /\ resp' = call.resp
         /\ called' = "assistants.delete"
         /\ last' = call.result
    /\ UNCHANGED <<client, inputs, pc, config, deployment, deployment_url, poll_count,
                   elapsed, poll_interval, outcome, org, integration_id, integrations,
                   returned>>

\* client.deployments().delete(deployment_id)
DeploymentsDelete ==
    /\ pc = "function" /\ cmd.sub = "deployments.delete"
    /\ sent = <<>>
    /\ \E r \in {TransportFailure, JsonResponse(200, Json("deployment", <<>>))}
                \cup {ErrorResponse(st, b, IF b = "text" /\ st # 204 THEN "gone" ELSE "") :
                        st \in {199, 204, 299, 300, 404, 500},
                        b \in {"text", "unreadable"}} :
         LET call == deployments_delete(client, cmd.id, r) IN
         /\ sent' = call.reqs
         /\ resp' = call.resp
         /\ called' = "deployments.delete"
         /\ last' = call.result
    /\ UNCHANGED <<client, inputs, pc, config, deployment, deployment_url, poll_count,
                   elapsed, poll_interval, outcome, org, integration_id, integrations,
                   returned>>

FunctionInit ==
    /\ \E ls \in {None, Some("ls-key")}, lg \in {None, Some("lg-key")},
          o \in {None, Some("org-auth")}, w \in {None, Some("ws-auth")} :
         client \in {LangchainClientNew(AuthConfigNew(ls, lg, o, w)),
                     with_base_urls(AuthConfigNew(ls, lg, o, w),
                                    "http://127.0.0.1:8001", "http://127.0.0.1:8002",
                                    "http://127.0.0.1:8003")}
    /\ sent = <<>>
    /\ resp = NoResponse
    /\ called = "none"
    /\ last = NoResult
    /\ env = EnvOf(None, None, None, None, None, None) /\ file = MissingFile
    /\ cmd \in [family : {"function"}, sub : {"scope"},
                organization_id : {None, Some("org-flag-1")},
                workspace_id : {None, Some("ws-flag-1")}, public : BOOLEAN]
               \cup [family : {"function"}, sub : {"filter"},
                     visibility : {"Public", "Private", "Any"},
                     page : SeqsUpTo({[repo_handle |-> "me/a", is_public |-> TRUE],
                                      [repo_handle |-> "me/b", is_public |-> FALSE],
                                      [repo_handle |-> "me/c", is_public |-> TRUE]},
                                     MaxPage)]
               \cup [family : {"function"}, sub : {"assistants.list"},
                     limit : {None, Some(10)}, offset : {None, Some(5)}]
               \cup [family : {"function"}, sub : {"assistants.search"},
                     query : {"test", ""}, limit : {None, Some(10)}]
               \cup [family : {"function"},
                     sub : {"assistants.delete", "deployments.delete"}, id : {"x1"}]
               \cup [family : {"function"}, sub : {"deployments.list"},
                     limit : {None, Some(5), Some(100), Some(250)},
                     offset : {None, Some(40)},
                     filters :
                       {None}
                       \cup {Some(f) :
                               f \in [name_contains : {None, Some("demo"),
                                                       Some("a&status=READY")},
                                      status : {None, Some("Ready"), Some("AwaitingDelete")},
                                      deployment_type : {None, Some("Prod")},
                                      image_version : {None, Some("0.2+1")}]}]
    /\ pc = "function" /\ config = ConfigDefault
    /\ deployment = DeploymentDefault /\ deployment_url = None /\ poll_count = 0
    /\ elapsed = 0 /\ poll_interval = 0
    /\ outcome = Running /\ org = None /\ integration_id = None
    /\ integrations = <<>>
    /\ returned = None

FunctionNext == ApplyScoping \/ DetermineVisibility \/ FilterPage \/ DeploymentsList
                \/ AssistantsList \/ AssistantsSearch
                \/ AssistantsDelete \/ DeploymentsDelete

FunctionSpec == FunctionInit /\ [][FunctionNext]_vars

---------------------------------------------------------------------------
(* sdk/tests/integration_deployment_workflow.rs: wait_for_deployment       *)

POLL_INTERVAL == 60000       \* Duration::from_secs(60), in milliseconds
MAX_WAIT_TIME == 1800000     \* Duration::from_secs(1800), in milliseconds

\* An iteration that fetches first and looks at the clock afterwards.
WaitForDeploymentFetchFirst ==
    /\ pc = "revision_loop"
    /\ \E r \in FailureResponses
                \cup {JsonResponse(200, Json("revision", <<[status |-> st]>>)) :
                        st \in {"Deployed", "BuildFailed", "DeployFailed", "Cancelled",
                                "Building", "Queued"}},
          latency \in {0, 59999, 29 * POLL_INTERVAL} :
         LET call == get_revision(client, cmd.deployment_id, cmd.revision_id, r)
             status == IF call.result.tag = "Ok"
                       THEN call.result.value.items[1].status ELSE "" IN
         /\ sent' = sent \o call.reqs
         /\ resp' = call.resp
         /\ called' = "deployments.get_revision"
         /\ last' = call.result
         /\ poll_count' = poll_count + 1
         /\ IF call.result.tag # "Ok"
            THEN /\ pc' = "done" /\ outcome' = Failed(call.result.tag)
                 /\ elapsed' = elapsed + latency
            ELSE IF status = "Deployed"
            THEN /\ pc' = "done" /\ outcome' = Succeeded
                 /\ elapsed' = elapsed + latency
            ELSE IF status \in {"BuildFailed", "DeployFailed", "Cancelled"}
            THEN /\ pc' = "done" /\ outcome' = Failed("Revision failed with status")
                 /\ elapsed' = elapsed + latency
            ELSE IF elapsed + latency >= MAX_WAIT_TIME
            THEN /\ pc' = "done" /\ outcome' = Failed("Timeout waiting for revision")
                 /\ elapsed' = elapsed + latency
            ELSE /\ pc' = "revision_loop" /\ outcome' = outcome
                 /\ elapsed' = elapsed + latency + POLL_INTERVAL
    /\ UNCHANGED <<client, inputs, config, deployment, deployment_url, poll_interval,
                   org, integration_id, integrations, returned>>

\* One iteration of the loop: the timeout check, the fetch of the revision
\* (which takes some milliseconds), the match on its status and the sleep.
WaitForDeployment ==
    /\ pc = "revision_loop"
    /\ IF elapsed >= MAX_WAIT_TIME
       THEN /\ pc' = "done"
            /\ outcome' = Failed("Timeout waiting for revision")
            /\ UNCHANGED <<sent, resp, called, last, poll_count, elapsed>>
       ELSE \E r \in FailureResponses
                   \cup {JsonResponse(200, Json("revision", <<[status |-> st]>>)) :
                           st \in {"Deployed", "BuildFailed", "DeployFailed", "Cancelled",
                                   "Building", "Queued"}},
               latency \in {0, 59999, 29 * POLL_INTERVAL} :
              LET call == get_revision(client, cmd.deployment_id, cmd.revision_id, r)
                  status == IF call.result.tag = "Ok"
                            THEN call.result.value.items[1].status ELSE "" IN
              /\ sent' = sent \o call.reqs
              /\ resp' = call.resp
              /\ called' = "deployments.get_revision"
              /\ last' = call.result
              /\ poll_count' = poll_count + 1
              /\ IF call.result.tag # "Ok"
                 THEN /\ pc' = "done" /\ outcome' = Failed(call.result.tag)
                      /\ elapsed' = elapsed + latency
                 ELSE IF status = "Deployed"
                 THEN /\ pc' = "done" /\ outcome' = Succeeded
                      /\ elapsed' = elapsed + latency
                 ELSE IF status \in {"BuildFailed", "DeployFailed", "Cancelled"}
                 THEN /\ pc' = "done" /\ outcome' = Failed("Revision failed with status")
                      /\ elapsed' = elapsed + latency
                 ELSE /\ pc' = "revision_loop" /\ outcome' = outcome
                      /\ elapsed' = elapsed + latency + POLL_INTERVAL
    /\ UNCHANGED <<client, inputs, config, deployment, deployment_url, poll_interval,
                   org, integration_id, integrations, returned>>

\* The test calls wait_for_deployment with a client and the IDs of a
\* deployment and its revision; start_time is taken on entry.
RevisionInit ==
    /\ \E ls \in {None, Some("ls-key")}, w \in {None, Some("ws-auth")} :
         client = LangchainClientNew(AuthConfigNew(ls, None, None, w))
    /\ sent = <<>>
    /\ resp = NoResponse
    /\ called = "none"
    /\ last = NoResult
    /\ env = EnvOf(None, None, None, None, None, None) /\ file = MissingFile
    /\ cmd = [family |-> "function", sub |-> "wait_for_deployment",
              deployment_id |-> "d1", revision_id |-> "r1"]
    /\ pc = "revision_loop" /\ config = ConfigDefault
    /\ deployment = DeploymentDefault /\ deployment_url = None /\ poll_count = 0
    /\ elapsed = 0 /\ poll_interval = 0
    /\ outcome = Running /\ org = None /\ integration_id = None
    /\ integrations = <<>>
    /\ returned = None

RevisionNext == WaitForDeployment

\* Every fetch returns and the task is scheduled: an iteration that can be
\* taken is taken.
RevisionSpec == RevisionInit /\ [][RevisionNext]_vars /\ WF_vars(RevisionNext)
---------------------------------------------------------------------------
(* Properties of the SDK client (SdkSpec) *)

OptSet(o) == IF IsSome(o) THEN {o[1]} ELSE {}
NewRequests == {sent'[i] : i \in (Len(sent) + 1)..Len(sent')}
LangsmithKeyBuilders ==
    {"langsmith_get", "langsmith_post", "langsmith_put", "control_plane_get"}
LanggraphKeyBuilders ==
    {"langgraph_get", "langgraph_post", "langgraph_patch", "langgraph_delete"}
\* A step in which a request builder was called and something came of it.
SdkCallStep ==
    /\ called' \in Builders
    /\ <<sent, resp, called, last>>' # <<sent, resp, called, last>>

\* C2: every request built by langgraph_get/post/patch/delete carries the
\* api-key header, holding the LangGraph key, and neither x-organization-id
\* nor X-Tenant-Id, whatever organization and workspace ID the client has.
C2_GraphRuntimeApiKeyOnly ==
    /\ \A i \in 1..Len(sent) :
         sent[i].service = "langgraph" =>
            /\ HeaderValue(sent[i], "x-api-key") = OptSet(client.auth.langgraph_api_key)
            /\ HeaderNames(sent[i]) \cap {"x-organization-id", "x-tenant-id"} = {}
    /\ (called \in LanggraphKeyBuilders /\ last.tag # "AuthError") =>
            /\ Len(sent) > 0
            /\ sent[Len(sent)].service = "langgraph"
            /\ HeaderValue(sent[Len(sent)], "x-api-key") # {}

C2_Witness ==
    /\ called = "langgraph_delete"
    /\ Len(sent) > 0 /\ sent[Len(sent)].service = "langgraph"
    /\ IsSome(client.organization_id)
    /\ IsSome(client.workspace_id)

\* C3: a prompt-hub request carries the api-key header, the organization
\* header iff the client's organization ID is set and the tenant header iff
\* its workspace ID is set (both when both are set); a control-plane request
\* carries the api-key header, the tenant header iff the workspace ID is
\* set, never the organization header, and is built whenever the LangSmith
\* key is present, with or without a workspace ID.
C3_ScopeHeaderSets ==
    [][/\ \A r \in NewRequests :
            /\ r.service = "langsmith" =>
                 /\ HeaderValue(r, "x-api-key") = OptSet(client.auth.langsmith_api_key)
                 /\ HeaderValue(r, "x-organization-id") = OptSet(client.organization_id)
                 /\ HeaderValue(r, "x-tenant-id") = OptSet(client.workspace_id)
            /\ r.service = "control_plane" =>
                 /\ HeaderValue(r, "x-api-key") = OptSet(client.auth.langsmith_api_key)
                 /\ HeaderValue(r, "x-organization-id") = {}
                 /\ HeaderValue(r, "x-tenant-id") = OptSet(client.workspace_id)
       /\ (SdkCallStep /\ called' = "control_plane_get"
              /\ IsSome(client.auth.langsmith_api_key)) =>
            \E r \in NewRequests : r.service = "control_plane"
       /\ (SdkCallStep /\ called' \in {"langsmith_get", "langsmith_post", "langsmith_put"}
              /\ IsSome(client.auth.langsmith_api_key)) =>
            \E r \in NewRequests : r.service = "langsmith"]_vars

C3_Witness ==
    /\ Len(sent) > 0
    /\ sent[Len(sent)].service = "langsmith"
    /\ {"x-api-key", "x-organization-id", "x-tenant-id"} \subseteq HeaderNames(sent[Len(sent)])

C5_ExecuteContract ==
    [][(SdkCallStep /\ last'.tag # "AuthError") =>
         /\ Len(sent') = Len(sent) + 1
         /\ (resp'.arrived /\ resp'.status \notin 200..299) =>
              /\ last'.tag = "ApiError"
              /\ last'.status = resp'.status
              /\ last'.message = IF resp'.body = "unreadable" THEN "Unknown error"
                                 ELSE resp'.text
         /\ (resp'.arrived /\ resp'.status \in 200..299) =>
              IF last'.tag = "Ok"
              THEN /\ resp'.body = "json"
                   /\ resp'.json.shape = "deployment"
                   /\ last'.value.items[1].id = resp'.json.items[1].id
                   /\ last'.value.items[1].name = resp'.json.items[1].name
              ELSE /\ last'.tag = "HttpError"
                   /\ last'.message = "decode"
         /\ (resp'.arrived /\ resp'.status \in 200..299
                /\ (resp'.body # "json" \/ resp'.json.shape # "deployment")) =>
              last'.tag = "HttpError"
         /\ last'.tag = "ApiError" => resp'.status \notin 200..299]_vars

C5_Witness ==
    /\ called \in Builders
    /\ resp.arrived /\ resp.status = 500 /\ resp.body = "unreadable"
    /\ last.tag = "ApiError" /\ last.status = 500 /\ last.message = "Unknown error"

\* C9: a deployment JSON whose status string is none of the recognized
\* values decodes to a Deployment with status Unknown.
C9_UnrecognizedStatusIsUnknown ==
    (/\ called \in Builders
     /\ last.tag # "AuthError"
     /\ resp.arrived /\ resp.status \in 200..299 /\ resp.body = "json"
     /\ resp.json.shape = "deployment"
     /\ resp.json.items[1].status.t = "str"
     /\ resp.json.items[1].status.v \notin
            {"AWAITING_DATABASE", "READY", "UNUSED", "AWAITING_DELETE", "UNKNOWN"})
    => (last.tag = "Ok" /\ last.value.items[1].status = "Unknown")

\* C10: custom_url is Some(u) exactly when source_config is present, has the
\* key custom_url and its value is the string u; None when source_config is
\* absent, the key is absent, or the value is null or another non-string.
C10_CustomUrlExtraction ==
    called = "custom_url" =>
        LET sc == resp.json.items[1].source_config IN
        deployment_url =
            IF sc.kind = "object" /\ sc.custom_url.t = "str"
            THEN Some(sc.custom_url.v) ELSE None

C10_Witness ==
    /\ called = "custom_url"
    /\ resp.json.items[1].source_config.kind = "object"
    /\ deployment_url = Some("https://dep-1.example")

---------------------------------------------------------------------------
(* Properties of the prompt commands (PromptSpec) *)

FirstSome(a, b, c) == IF IsSome(a) THEN a ELSE IF IsSome(b) THEN b ELSE c
\* What the config file supplies for a field: nothing when the file is
\* missing or does not parse.
FileValue(field) == IF file.state = "ok" THEN file.content[field] ELSE None

\* C1 (as the code has it): the organization ID, and likewise the workspace
\* ID, carried by a prompt-hub request is the value of the first present
\* source in the order CLI flag, environment variable, config file; with no
\* source present there is no header, except that prompt push, after its
\* organization fetch, carries the organization ID that the fetch returned.
C1_ScopePrecedence ==
    [][\A r \in NewRequests :
         r.service = "langsmith" =>
            LET organization == FirstSome(cmd.organization_id,
                                          env.LANGSMITH_ORGANIZATION_ID,
                                          FileValue("organization_id"))
                workspace == FirstSome(cmd.workspace_id, env.LANGSMITH_WORKSPACE_ID,
                                       FileValue("workspace_id")) IN
            /\ HeaderValue(r, "x-tenant-id") = OptSet(workspace)
            /\ HeaderValue(r, "x-organization-id") =
                 IF IsSome(organization) THEN OptSet(organization)
                 ELSE IF cmd.sub = "push" /\ r.path # "/api/v1/orgs/current"
                      THEN OptSet(org')
                      ELSE {}]_vars

\* The environment variable wins over the config file, in a request sent.
C1_Witness ==
    /\ IsNone(cmd.organization_id)
    /\ env.LANGSMITH_ORGANIZATION_ID = Some("org-env-1")
    /\ FileValue("organization_id") = Some("org-file-1")
    /\ Len(sent) > 0
    /\ HeaderValue(sent[Len(sent)], "x-organization-id") = {"org-env-1"}

\* C1 as stated: the order is CLI flag, config file, environment variable,
\* and with no source present no organization header is attached.
C1_AsStated ==
    [][\A r \in NewRequests :
         r.service = "langsmith" =>
            /\ HeaderValue(r, "x-organization-id") =
                 OptSet(FirstSome(cmd.organization_id, FileValue("organization_id"),
                                  env.LANGSMITH_ORGANIZATION_ID))
            /\ HeaderValue(r, "x-tenant-id") =
                 OptSet(FirstSome(cmd.workspace_id, FileValue("workspace_id"),
                                  env.LANGSMITH_WORKSPACE_ID))]_vars

---------------------------------------------------------------------------
(* Properties of the assistant commands (AssistantSpec) *)

ListPath == "/v2/deployments?limit=100&offset=0"

\* The first deployment of a list response, as received, whose name or id is
\* the target; 0 when there is none.
RawFirstMatch(items, target) ==
    IF \A i \in 1..Len(items) : items[i].name # target /\ items[i].id # target THEN 0
    ELSE CHOOSE i \in 1..Len(items) :
            /\ items[i].name = target \/ items[i].id = target
            /\ \A j \in 1..(i - 1) : items[j].name # target /\ items[j].id # target

RawCustomUrl(raw) ==
    IF raw.source_config.kind = "object" /\ raw.source_config.custom_url.t = "str"
    THEN Some(raw.source_config.custom_url.v) ELSE None

\* The lookup step of an assistant command.
LookupStep == pc = "execute" /\ pc' # "execute"

\* C7: resolve_deployment_url sends at most one request, the deployments
\* list with limit 100 and offset 0 and no filter (exactly one when the
\* LangSmith key is set); of the listed deployments it takes the first whose
\* name or id is the target and returns its custom_url; it fails with "not
\* found" when none matches and with "has no custom_url" when the first
\* match has none, whatever follows it in the list.
C7_ResolveDeploymentUrl ==
    [][LookupStep =>
         /\ Len(sent') <= Len(sent) + 1
         /\ \A r \in NewRequests :
              r.service = "control_plane" /\ r.method = "GET" /\ r.path = ListPath
         /\ IsSome(config.langsmith_api_key) => Len(sent') = Len(sent) + 1
         /\ IF last'.tag = "Ok"
            THEN LET items == resp'.json.items
                     i == RawFirstMatch(items, cmd.deployment) IN
                 IF i = 0
                 THEN outcome' = Failed("not found") /\ deployment_url' = None
                 ELSE IF IsNone(RawCustomUrl(items[i]))
                 THEN outcome' = Failed("has no custom_url") /\ deployment_url' = None
                 ELSE outcome' = Running /\ deployment_url' = RawCustomUrl(items[i])
            ELSE outcome'.status = "err" /\ deployment_url' = None]_vars

\* The first match has no custom_url, a later one has: the lookup fails.
C7_Witness ==
    /\ called = "deployments.list"
    /\ cmd.deployment = "demo"
    /\ resp.json.shape = "deployments"
    /\ Len(resp.json.items) = 2
    /\ resp.json.items[1].id = "d2"
    /\ resp.json.items[2].id = "d1"
    /\ outcome = Failed("has no custom_url")

\* C8: in every invocation the first request is the deployments list of the
\* lookup; a graph-runtime request is sent only in a state where the lookup
\* has succeeded, and its base URL is the custom_url of the deployment the
\* lookup selected; after a failed lookup the invocation sends nothing more.
C8_RetargetingOrder ==
    [][/\ Len(sent') > 0 =>
            sent'[1].service = "control_plane" /\ sent'[1].path = ListPath
       /\ \A r \in NewRequests :
            r.service = "langgraph" =>
               /\ Len(sent) = 1
               /\ last.tag = "Ok"
               /\ resp.json.shape = "deployments"
               /\ LET i == RawFirstMatch(resp.json.items, cmd.deployment) IN
                  /\ i # 0
                  /\ RawCustomUrl(resp.json.items[i]) = Some(r.base)
       /\ (LookupStep /\ IsNone(deployment_url')) => pc' = "done"
       /\ (pc = "done" /\ pc' # "run") => sent' = sent]_vars

C8_Witness ==
    /\ cmd.sub = "delete"
    /\ Len(sent) = 2
    /\ sent[1].service = "control_plane"
    /\ sent[2].service = "langgraph"
    /\ sent[2].method = "DELETE"
    /\ sent[2].base = "https://dep-3.example"

---------------------------------------------------------------------------
(* Properties of graph create --wait (GraphSpec) *)

\* C6: with --wait, once create has returned a Deployment, the command ends
\* with success exactly when the deployment it holds (from create or from
\* the latest re-fetch) is Ready, and sends nothing on that step; on any
\* other status it goes on to re-fetch the deployment by its ID, once per
\* iteration; a re-fetch is sent only from an iteration that saw a status
\* other than Ready.
C6_WaitForReady ==
    [][/\ (pc = "create" /\ last'.tag = "Ok" /\ cmd.wait) =>
            /\ pc' = "wait"
            /\ deployment'.id = resp'.json.items[1].id
            /\ (deployment'.status = "Ready"
                  <=> resp'.json.items[1].status = JStr("READY"))
       /\ (pc = "wait" /\ pc' # "wait") =>
            /\ sent' = sent
            /\ deployment' = deployment
            /\ IF deployment.status = "Ready"
               THEN pc' = "done" /\ outcome' = Succeeded
               ELSE /\ deployment.status \in
                         {"AwaitingDatabase", "Unused", "AwaitingDelete", "Unknown"}
                    /\ pc' = "poll" /\ outcome' = Running
       /\ (pc = "poll" /\ pc' # "poll") =>
            /\ Len(sent') = Len(sent) + 1
            /\ last'.tag = "Ok" =>
                 /\ pc' = "wait"
                 /\ deployment'.id = resp'.json.items[1].id
                 /\ (deployment'.status = "Ready"
                       <=> resp'.json.items[1].status = JStr("READY"))
       /\ \A r \in NewRequests :
            (r.method = "GET" /\ r.path = "/v2/deployments/" \o deployment.id) =>
               pc = "poll" /\ deployment.status # "Ready"
       /\ \A r \in NewRequests :
            pc = "poll" =>
               /\ r.service = "control_plane" /\ r.method = "GET"
               /\ r.path = "/v2/deployments/" \o deployment.id
       /\ (cmd.sub = "create" /\ cmd.wait /\ outcome'.status = "ok")
            => deployment'.status = "Ready"]_vars

\* Two re-fetches, the second of which returned Ready.
C6_Witness ==
    /\ cmd.sub = "create"
    /\ cmd.wait
    /\ pc = "done"
    /\ outcome = Succeeded
    /\ poll_count = 2
    /\ Len(sent) >= 3
    /\ sent[Len(sent)].path = "/v2/deployments/d9"
    /\ deployment.status = "Ready"

---------------------------------------------------------------------------
(* C11: wait-loop staging.  The sleep chosen at the top of an iteration is *)
(* 10 seconds when the whole-second elapsed time read there is under 30    *)
(* seconds and 30 seconds otherwise (5s and 29s give 10s; 30s, 31s and 90s *)
(* give 30s); the sleep that follows lasts at least the interval chosen in *)
(* that iteration, which is not chosen again before the re-fetch.          *)
C11_WaitLoopStaging ==
    [][/\ PollInterval(5) = 10 /\ PollInterval(29) = 10
       /\ PollInterval(30) = 30 /\ PollInterval(31) = 30 /\ PollInterval(90) = 30
       /\ (pc = "wait" /\ pc' = "poll") =>
            /\ elapsed' = elapsed
            /\ poll_interval' = IF elapsed < 30000 THEN 10 ELSE 30
       /\ (pc = "poll" /\ pc' # "poll") =>
            /\ poll_interval \in {10, 30}
            /\ poll_interval' = poll_interval
            /\ elapsed' >= elapsed + 1000 * poll_interval]_vars

\* The third iteration reads exactly 30 seconds and chooses the long sleep.
C11_Witness ==
    /\ pc = "poll"
    /\ poll_count = 3
    /\ elapsed = 30000
    /\ poll_interval = 30

---------------------------------------------------------------------------
(* C12: prompt push is a lenient sequence.  With the LangSmith key set the *)
(* commit POST is sent exactly once, as the last request, after the        *)
(* optional organization fetch and the repository probe; without the key   *)
(* no request is sent at all.  create_repo is attempted exactly when the   *)
(* probe failed; neither the organization fetch, nor the probe, nor        *)
(* create_repo ends the command; the command succeeds exactly when the     *)
(* commit call succeeds.                                                   *)
C12_PushIsLenient ==
    [][cmd.sub = "push" =>
         LET Commits(s) == {i \in 1..Len(s) : /\ s[i].method = "POST"
                                              /\ s[i].path = "/api/v1/commits/me/demo"}
             key == IsSome(config.langsmith_api_key) IN
         /\ pc \in {"execute", "push_probe", "push_create"} =>
               /\ pc' # "done" /\ outcome' = Running
               /\ Commits(sent') = {}
         /\ pc = "execute" =>
               /\ pc' = "push_probe"
               /\ \A r \in NewRequests : r.method = "GET" /\ r.path = "/api/v1/orgs/current"
         /\ pc = "push_probe" =>
               /\ pc' = IF last'.tag = "Ok" THEN "push_commit" ELSE "push_create"
               /\ key => /\ Len(sent') = Len(sent) + 1
                         /\ sent'[Len(sent')].method = "GET"
                         /\ sent'[Len(sent')].path = "/api/v1/repos/me/demo"
         /\ pc = "push_create" =>
               /\ pc' = "push_commit"
               /\ last.tag # "Ok"
               /\ key => /\ Len(sent') = Len(sent) + 1
                         /\ sent'[Len(sent')].method = "POST"
                         /\ sent'[Len(sent')].path = "/api/v1/repos"
         /\ \A r \in NewRequests :
               (r.method = "POST" /\ r.path = "/api/v1/repos") => pc = "push_create"
         /\ pc = "push_commit" =>
               /\ pc' = "done"
               /\ Commits(sent') = IF key THEN {Len(sent')} ELSE {}
               /\ ~key => sent' = <<>> /\ outcome' = Failed("AuthError")
               /\ outcome' = Succeeded <=> last'.tag = "Ok"
               /\ outcome'.status \in {"ok", "err"}
               /\ outcome'.status = "err" => outcome' = Failed(last'.tag)]_vars

\* The organization fetch, the probe and create_repo all failed and the push
\* succeeded on its commit.
C12_Witness ==
    /\ cmd.sub = "push"
    /\ pc = "done"
    /\ Len(sent) = 4
    /\ sent[1].path = "/api/v1/orgs/current"
    /\ sent[3].path = "/api/v1/repos" /\ sent[3].method = "POST"
    /\ sent[4].path = "/api/v1/commits/me/demo"
    /\ org = None
    /\ outcome = Succeeded

\* C12 as stated: every execution of prompt push issues the commit POST
\* exactly once.
C12_AsStated ==
    (cmd.sub = "push" /\ pc = "done") =>
        Cardinality({i \in 1..Len(sent) : /\ sent[i].method = "POST"
                                          /\ sent[i].path = "/api/v1/commits/me/demo"}) = 1

---------------------------------------------------------------------------
(* C13: integration discovery.  The integrations are tried in the order of *)
(* the listing, one repository listing each; the first whose listing       *)
(* succeeds and holds a repository with the owner and the name ends the    *)
(* search with its id, and nothing is listed after it; an integration      *)
(* whose listing fails, or has no such repository, is passed over; the 404 *)
(* ApiError is returned only when no integration is left to try.           *)
C13_FindIntegrationForRepo ==
    [][/\ (pc = "find" /\ pc' = "find_loop") =>
            /\ Len(integrations') = Len(resp'.json.items)
            /\ \A i \in 1..Len(integrations') :
                  JStr(integrations'[i]) = resp'.json.items[i].id
       /\ (pc = "find_loop" /\ integrations # <<>>) =>
            LET listed == /\ resp'.arrived /\ resp'.status = 200 /\ resp'.body = "json"
                          /\ resp'.json.shape = "repositories"
                          /\ \A i \in 1..Len(resp'.json.items) :
                                /\ resp'.json.items[i].owner.t = "str"
                                /\ resp'.json.items[i].name.t = "str"
                matches == /\ listed
                           /\ \E i \in 1..Len(resp'.json.items) :
                                 /\ resp'.json.items[i].owner = JStr(cmd.owner)
                                 /\ resp'.json.items[i].name = JStr(cmd.repo)
            IN
            /\ Len(sent') = Len(sent) + 1
            /\ sent'[Len(sent')].method = "GET"
            /\ sent'[Len(sent')].path =
                  "/v1/integrations/github/" \o integrations[1] \o "/repos"
            /\ integrations' = Tail(integrations)
            /\ IF matches
               THEN /\ pc' = "done"
                    /\ last'.tag = "Ok" /\ last'.value.items = <<integrations[1]>>
               ELSE pc' = "find_loop"
       /\ (pc = "find_loop" /\ integrations = <<>>) =>
            /\ sent' = sent
            /\ pc' = "done"
            /\ last'.tag = "ApiError" /\ last'.status = 404
       /\ (pc' = "done" /\ pc # "done" /\ last'.tag = "ApiError" /\ last'.status = 404
             /\ last'.message = "No integration found with access to me/app")
           => pc = "find_loop" /\ integrations = <<>>
       /\ pc = "done" => sent' = sent]_vars

\* The first integration's repositories could not be listed, the second has
\* the repository.
C13_Witness ==
    /\ pc = "done"
    /\ Len(sent) = 3
    /\ sent[2].path = "/v1/integrations/github/i1/repos"
    /\ sent[3].path = "/v1/integrations/github/i2/repos"
    /\ last.tag = "Ok"
    /\ last.value.items = <<"i2">>

---------------------------------------------------------------------------
(* C14: graph create with source github.  The create request's            *)
(* source_config.integration_id is the --integration-id flag when given,   *)
(* else the configured github_integration_id when set (and then no         *)
(* deployment is listed), else the integration_id of the first listed      *)
(* GitHub deployment that has a source_config; its source_revision_config  *)
(* is {repo_ref: the branch, langgraph_config_path: the config path}.      *)
C14_CreateRequestGithub ==
    [][(pc = "create" /\ cmd.source = "github" /\ sent' # sent) =>
         LET request == sent'[Len(sent')].body[1]
             listed == resp.json.items
             github == {i \in 1..Len(listed) :
                          /\ listed[i].source = "github"
                          /\ listed[i].source_config.kind \notin {"absent", "null"}}
             first == CHOOSE i \in github : \A j \in github : i <= j
         IN
         /\ Len(sent') = Len(sent) + 1
         /\ sent'[Len(sent')].path = "/v2/deployments"
         /\ IF IsSome(cmd.integration_id)
            THEN sent = <<>> /\ request.source_config.integration_id = cmd.integration_id
            ELSE IF IsSome(config.github_integration_id)
            THEN /\ sent = <<>>
                 /\ request.source_config.integration_id = config.github_integration_id
            ELSE /\ Len(sent) = 1
                 /\ sent[1].path = "/v2/deployments?limit=100&offset=0"
                 /\ github # {}
                 /\ JStr(request.source_config.integration_id[1]) =
                       listed[first].source_config.integration_id
         /\ request.source_revision_config =
               <<[repo_ref |-> cmd.branch[1],
                  langgraph_config_path |-> cmd.config_path]>>]_vars

\* Neither flag nor configuration: the ID comes from a listed deployment and
\* the request is posted with it.
C14_Witness ==
    /\ cmd.sub = "create"
    /\ cmd.source = "github"
    /\ cmd.integration_id = None
    /\ config.github_integration_id = None
    /\ called = "deployments.create"
    /\ Len(sent) = 2
    /\ sent[2].body[1].source_config.integration_id = Some("int-1")
    /\ sent[2].body[1].source_revision_config[1].repo_ref = "main"

---------------------------------------------------------------------------
(* C15: graph delete without --yes, when the answer at the prompt is       *)
(* anything other than "yes", makes no network call and returns success.   *)
(* Without --yes the command sends a request only on the answer "yes", so  *)
(* a command that ended having sent nothing was given another answer.      *)
C15_DeclinedDeleteSucceeds ==
    (cmd.sub = "delete" /\ ~cmd.yes /\ pc = "done" /\ called # "deployments.delete")
        => sent = <<>> /\ outcome = Succeeded

---------------------------------------------------------------------------
(* C16: an assistant subcommand, whichever it is, given without            *)
(* --deployment sends no HTTP request, and ends in its first step with an  *)
(* error that names the --deployment argument.                             *)
C16_DeploymentRequired ==
    (cmd.family = "assistant" /\ ~cmd.deployment_given) =>
        /\ sent = <<>>
        /\ pc \in {"run", "done"}
        /\ pc = "done" =>
             /\ outcome.status = "err"
             /\ outcome.error = "the following required arguments were not provided: "
                                  \o "--deployment <DEPLOYMENT>"

\* assistant create without --deployment has failed.
C16_Witness ==
    /\ cmd.family = "assistant"
    /\ cmd.sub = "create"
    /\ ~cmd.deployment_given
    /\ pc = "done"
    /\ outcome.status = "err"
    /\ sent = <<>>


---------------------------------------------------------------------------
(* C17: the visibility filter. Whatever the page and the visibility, the   *)
(* filter returns the prompts of the page whose is_public is true (Public) *)
(* or false (Private), or all of them (Any), in page order; Any returns    *)
(* the page itself; and the filter applied to a page it returned, with the *)
(* same visibility, returns that page.                                     *)
C17_VisibilityFilterAlgebra ==
    [][(cmd.sub = "filter" /\ IsSome(returned')) =>
         LET repos == returned'[1].arg
             out == returned'[1].value
             keep == {i \in 1..Len(repos) :
                        \/ cmd.visibility = "Any"
                        \/ cmd.visibility = "Public" /\ repos[i].is_public
                        \/ cmd.visibility = "Private" /\ ~repos[i].is_public}
             nth(k) == CHOOSE i \in keep : Cardinality({j \in keep : j <= i}) = k
         IN
         /\ Len(out) = Cardinality(keep)
         /\ \A k \in 1..Len(out) : out[k] = repos[nth(k)]
         /\ cmd.visibility = "Any" => out = repos
         /\ (IsSome(returned) /\ repos = returned[1].value) => out = repos]_vars

\* A page of a public, a private and a public prompt was filtered by Public,
\* and the two prompts returned were filtered by Public again.
C17_Witness ==
    /\ cmd.sub = "filter"
    /\ cmd.visibility = "Public"
    /\ Len(cmd.page) = 3
    /\ cmd.page[1].is_public /\ ~cmd.page[2].is_public /\ cmd.page[3].is_public
    /\ cmd.page[1] # cmd.page[3]
    /\ IsSome(returned)
    /\ returned[1].arg = <<cmd.page[1], cmd.page[3]>>
    /\ returned[1].value = <<cmd.page[1], cmd.page[3]>>

---------------------------------------------------------------------------
(* C19: apply_scoping returns a client whose organization ID is the flag   *)
(* when the flag is given and the ID of the client it was given otherwise, *)
(* and the same, independently, for the workspace ID; the AuthConfig with  *)
(* its API keys and the three base URLs are those of the client it was     *)
(* given; and the client the caller kept is the one it had before.         *)
C19_ScopingIsFunctionalUpdate ==
    [][(cmd.sub = "scope" /\ called' = "apply_scoping") =>
         LET out == returned'[1].value IN
         /\ returned'[1].arg = client
         /\ out.organization_id = IF cmd.organization_id # None
                                  THEN cmd.organization_id
                                  ELSE client.organization_id
         /\ out.workspace_id = IF cmd.workspace_id # None
                               THEN cmd.workspace_id
                               ELSE client.workspace_id
         /\ out.auth = client.auth
         /\ out.langsmith_base_url = client.langsmith_base_url
         /\ out.langgraph_base_url = client.langgraph_base_url
         /\ out.control_plane_base_url = client.control_plane_base_url
         /\ client' = client]_vars

\* --organization-id alone, on a client that has both IDs: the organization
\* ID is replaced, the workspace ID is kept, the caller's client has its own.
C19_Witness ==
    /\ cmd.sub = "scope"
    /\ called = "apply_scoping"
    /\ cmd.organization_id = Some("org-flag-1")
    /\ cmd.workspace_id = None
    /\ client.organization_id = Some("org-auth")
    /\ client.workspace_id = Some("ws-auth")
    /\ returned[1].value.organization_id = Some("org-flag-1")
    /\ returned[1].value.workspace_id = Some("ws-auth")

---------------------------------------------------------------------------
(* C20: determine_visibility returns Any for a client with neither an      *)
(* organization ID nor a workspace ID, with or without --public; for a     *)
(* client with at least one of the two it returns Public with --public     *)
(* and Private without.                                                    *)
C20_DefaultVisibility ==
    (cmd.sub = "scope" /\ called = "determine_visibility") =>
        LET c == returned[1].arg IN
        IF c.organization_id = None /\ c.workspace_id = None
        THEN returned[1].value = "Any"
        ELSE returned[1].value = IF cmd.public THEN "Public" ELSE "Private"

\* --public on a client with no ID gave Any.
C20_Witness ==
    /\ cmd.sub = "scope"
    /\ called = "determine_visibility"
    /\ cmd.public
    /\ returned[1].arg.organization_id = None
    /\ returned[1].arg.workspace_id = None
    /\ returned[1].value = "Any"

---------------------------------------------------------------------------
(* C18: a call of prompts().list or prompts().search on a client with a    *)
(* LangSmith API key sends exactly one request, the same under every       *)
(* visibility, whose query carries the limit of the command; the prompts   *)
(* it returns are a sub-sequence of the page in the response to that one   *)
(* request. Without the key the call sends nothing and fails with          *)
(* AuthError.                                                              *)
C18_NoTopUp ==
    [][(/\ cmd.family = "prompt"
        /\ pc = "execute"
        /\ called' \in {"prompts.list", "prompts.search"}) =>
         IF client'.auth.langsmith_api_key = None
         THEN sent' = <<>> /\ last'.tag = "AuthError"
         ELSE /\ Len(sent') = 1
              /\ sent'[1].method = "GET"
              /\ sent'[1].path =
                    IF cmd.sub = "list"
                    THEN "/api/v1/repos/?limit=" \o ToString(cmd.limit) \o "&offset=0"
                    ELSE "/api/v1/repos/?query=rag&limit=" \o ToString(cmd.limit)
              /\ last'.tag = "Ok" =>
                   LET page == resp'.json.items
                       out == last'.value.items
                   IN
                   \E f \in [1..Len(out) -> 1..Len(page)] :
                      /\ \A k \in 1..Len(out) : out[k] = DecodePrompt(page[f[k]]).val
                      /\ \A j, k \in 1..Len(out) : j < k => f[j] < f[k]]_vars

\* list --limit 1 on a scoped client: the one request asked for one prompt,
\* the server sent three, and the two public ones were removed.
C18_Witness ==
    /\ cmd.family = "prompt"
    /\ cmd.sub = "list"
    /\ cmd.limit = 1
    /\ called = "prompts.list"
    /\ Len(sent) = 1
    /\ sent[1].path = "/api/v1/repos/?limit=1&offset=0"
    /\ last.tag = "Ok"
    /\ Len(resp.json.items) = 3
    /\ Len(last.value.items) = 1
    /\ last.value.items[1].repo_handle = "me/private"

\* The claim without the condition on the key: every call of list or search
\* sends exactly one request.
C18_AsStated ==
    (cmd.family = "prompt" /\ called \in {"prompts.list", "prompts.search"})
        => Len(sent) = 1

---------------------------------------------------------------------------
(* C21: the path of the request of deployments().list is                   *)
(* /v2/deployments?limit=L&offset=O, with L the given limit, or 20, capped *)
(* at 100 and O the given offset, or 0, followed by one parameter for each *)
(* of name_contains, status, deployment_type and image_version that the    *)
(* filters hold, and by none for a field that is absent or when no filters *)
(* are given.                                                              *)
C21_DeploymentsListQuery ==
    (cmd.sub = "deployments.list" /\ called = "deployments.list" /\ sent # <<>>) =>
        LET given == IF cmd.limit = None THEN 20 ELSE cmd.limit[1]
            has(field) == cmd.filters # None /\ field \in DOMAIN cmd.filters[1]
                          /\ cmd.filters[1][field] # None
            value(field) == cmd.filters[1][field][1]
        IN
        /\ Len(sent) = 1
        /\ sent[1].method = "GET"
        /\ sent[1].path =
              "/v2/deployments?limit="
              \o ToString(IF given <= 100 THEN given ELSE 100)
              \o "&offset=" \o ToString(IF cmd.offset = None THEN 0 ELSE cmd.offset[1])
              \o (IF has("name_contains")
                  THEN "&name_contains="
                       \o (IF value("name_contains") = "a&status=READY"
                           THEN "a%26status%3DREADY" ELSE "demo")
                  ELSE "")
              \o (IF has("status")
                  THEN "&status=" \o (IF value("status") = "Ready" THEN "READY"
                                      ELSE "AWAITING_DELETE")
                  ELSE "")
              \o (IF has("deployment_type") THEN "&deployment_type=prod" ELSE "")
              \o (IF has("image_version") THEN "&image_version=0.2%2B1" ELSE "")

\* A limit of 250 with a name filter that holds "&" and "=": the limit sent is
\* 100 and the name is one parameter.
C21_Witness ==
    /\ cmd.sub = "deployments.list"
    /\ cmd.limit = Some(250)
    /\ cmd.offset = None
    /\ cmd.filters # None
    /\ cmd.filters[1].status = None
    /\ sent # <<>>
    /\ sent[1].path = "/v2/deployments?limit=100&offset=0"
                        \o "&name_contains=a%26status%3DREADY&image_version=0.2%2B1"

---------------------------------------------------------------------------
(* C22: the request of assistants().list is a POST to /assistants/search   *)
(* whose JSON body has no query field, neither null nor "", and has limit  *)
(* and offset exactly when they were given, with the value given; the      *)
(* request of assistants().search is the same but for the body, which has  *)
(* the query field with the query as a string, "" included.                *)
C22_ListIsSearchWithoutQuery ==
    (cmd.sub \in {"assistants.list", "assistants.search"} /\ sent # <<>>) =>
        LET body == sent[1].body[1] IN
        /\ Len(sent) = 1
        /\ sent[1].method = "POST"
        /\ sent[1].path = "/assistants/search"
        /\ sent[1].service = "langgraph"
        /\ "limit" \in DOMAIN body <=> cmd.limit # None
        /\ "limit" \in DOMAIN body => body.limit = [t |-> "num", v |-> cmd.limit[1]]
        /\ IF cmd.sub = "assistants.list"
           THEN /\ "query" \notin DOMAIN body
                /\ "offset" \in DOMAIN body <=> cmd.offset # None
                /\ "offset" \in DOMAIN body =>
                      body.offset = [t |-> "num", v |-> cmd.offset[1]]
           ELSE /\ "query" \in DOMAIN body
                /\ body.query = JStr(cmd.query)
                /\ "offset" \notin DOMAIN body

\* list(None, Some(5)): the body is {"offset":5}.
C22_Witness ==
    /\ cmd.sub = "assistants.list"
    /\ cmd.limit = None
    /\ cmd.offset = Some(5)
    /\ sent # <<>>
    /\ DOMAIN sent[1].body[1] = {"offset"}

---------------------------------------------------------------------------
(* C23: assistants().delete and deployments().delete, once the response    *)
(* has arrived, return Ok(()) for every status from 200 to 299, whatever   *)
(* the body (empty, not JSON, unreadable), and for every other status      *)
(* ApiError with that status and the text of the body, or "Unknown error"  *)
(* when the text cannot be read.                                           *)
C23_DeleteToleratesEmptySuccess ==
    (/\ cmd.sub \in {"assistants.delete", "deployments.delete"}
     /\ called = cmd.sub
     /\ sent # <<>>
     /\ resp.arrived) =>
        /\ Len(sent) = 1
        /\ sent[1].method = "DELETE"
        /\ IF 200 <= resp.status /\ resp.status <= 299
           THEN last.tag = "Ok"
           ELSE /\ last.tag = "ApiError"
                /\ last.status = resp.status
                /\ last.message = IF resp.body = "unreadable" THEN "Unknown error"
                                  ELSE resp.text

\* deployments().delete answered 204 with an empty body returned Ok.
C23_Witness ==
    /\ cmd.sub = "deployments.delete"
    /\ called = "deployments.delete"
    /\ sent # <<>>
    /\ resp.arrived /\ resp.status = 204 /\ resp.body = "text" /\ resp.text = ""
    /\ last.tag = "Ok"

---------------------------------------------------------------------------
(* C24: when the configuration file exists and does not parse as TOML, the *)
(* command ends as soon as the configuration has been loaded, with an      *)
(* error and without having sent a request.  The source loads with         *)
(* load_from_file().unwrap_or_default(), which turns the parse error into  *)
(* the default configuration, and the command goes on.                     *)
C24_ConfigParseErrorSurfaced ==
    (file.state = "invalid" /\ pc # "run") =>
        /\ pc = "done"
        /\ outcome.status = "err"
        /\ sent = <<>>

---------------------------------------------------------------------------
(* C25: graph create with source github ends, when --repo-url is missing,  *)
(* with the error "repo_url is required" and, when --repo-url is given and *)
(* --branch is missing, with the error "branch is required"; in both cases *)
(* no POST has been sent.  The source validates the two flags after it has *)
(* resolved the integration ID, so a failed discovery ends the command     *)
(* with another error, also when the LangSmith key is configured.          *)
C25_RequiredGithubFields ==
    (/\ cmd.sub = "create"
     /\ cmd.source = "github"
     /\ config.langsmith_api_key # None
     /\ cmd.repo_url = None \/ cmd.branch = None
     /\ pc = "done") =>
        /\ \A i \in 1..Len(sent) : sent[i].method # "POST"
        /\ outcome.status = "err"
        /\ outcome.error = IF cmd.repo_url = None THEN "repo_url is required"
                           ELSE "branch is required"

---------------------------------------------------------------------------
(* C26: in graph create --wait, a fetch of the deployment that fails ends  *)
(* the command in that step with the error of the fetch: the only request  *)
(* of the step is the GET of the deployment, no poll is counted after it,  *)
(* and once the command has ended nothing more is sent, so the deployment  *)
(* that was created is left as it is.                                      *)
C26_NoRetryInWaitLoop ==
    [][/\ (pc = "poll" /\ last'.tag # "Ok") =>
            /\ pc' = "done"
            /\ outcome' = Failed(last'.tag)
            /\ Len(sent') = Len(sent) + 1
            /\ SubSeq(sent', 1, Len(sent)) = sent
            /\ sent'[Len(sent')].method = "GET"
            /\ sent'[Len(sent')].path = "/v2/deployments/" \o deployment.id
            /\ poll_count' = poll_count
       /\ (cmd.sub = "create" /\ pc = "done") =>
            /\ pc' = "done"
            /\ sent' = sent
            /\ poll_count' = poll_count
            /\ outcome' = outcome
       /\ cmd.sub = "create" =>
            \A i \in 1..Len(sent') : sent'[i].method \in {"GET", "POST"}]_vars

\* The second fetch of the loop was answered 404: the command has ended with
\* ApiError after two polls.
C26_Witness ==
    /\ cmd.sub = "create"
    /\ cmd.wait
    /\ pc = "done"
    /\ poll_count = 2
    /\ called = "deployments.get"
    /\ last.tag = "ApiError"
    /\ outcome = Failed("ApiError")
    /\ sent[Len(sent)].method = "GET"

---------------------------------------------------------------------------
(* C27: wait_for_deployment returns Ok only in an iteration that fetched a *)
(* revision whose status is Deployed; it returns an error in the iteration *)
(* that fetched BuildFailed, DeployFailed or Cancelled; at the start of an *)
(* iteration at which 30 minutes or more have elapsed it returns an error  *)
(* and fetches nothing; after any other status it sleeps at least 60       *)
(* seconds and goes round again; and, each fetch returning, it ends.       *)
C27_BoundedRevisionPolling ==
    /\ [][pc = "revision_loop" =>
            LET fetched == poll_count' = poll_count + 1
                status == last'.value.items[1].status
            IN
            /\ outcome' = Succeeded =>
                  fetched /\ last'.tag = "Ok" /\ status = "Deployed" /\ pc' = "done"
            /\ elapsed >= MAX_WAIT_TIME =>
                  /\ pc' = "done"
                  /\ outcome'.status = "err"
                  /\ sent' = sent
                  /\ ~fetched
            /\ (fetched /\ last'.tag = "Ok"
                 /\ status \in {"BuildFailed", "DeployFailed", "Cancelled"}) =>
                  pc' = "done" /\ outcome'.status = "err"
            /\ (fetched /\ last'.tag = "Ok" /\ status = "Deployed") =>
                  pc' = "done" /\ outcome' = Succeeded
            /\ (fetched /\ last'.tag = "Ok"
                 /\ status \notin {"Deployed", "BuildFailed", "DeployFailed",
                                   "Cancelled"}) =>
                  /\ pc' = "revision_loop"
                  /\ outcome' = Running
                  /\ elapsed' >= elapsed + 60000]_vars
    /\ <>(pc = "done")

\* Thirty fetches a minute apart found the revision in progress; the
\* thirty-first iteration began at 30 minutes and returned the timeout error.
C27_Witness ==
    /\ cmd.sub = "wait_for_deployment"
    /\ pc = "done"
    /\ poll_count = 30
    /\ elapsed = 1800000
    /\ last.tag = "Ok"
    /\ last.value.items[1].status = "Building"
    /\ outcome = Failed("Timeout waiting for revision")

---------------------------------------------------------------------------
---------------------------------------------------------------------------
---------------------------------------------------------------------------
(* C30: prompt list and prompt search print the scope banner, which cuts   *)
(* the effective scope ID (the workspace ID when set, otherwise the        *)
(* organization ID) at byte 8, before the repos request is built.  When    *)
(* the ID is shorter than 8 bytes, or byte 8 falls inside a character, the *)
(* command panics there and sends nothing.  Otherwise the request is       *)
(* built: it is sent when a LangSmith key is configured, and without one   *)
(* the command fails with AuthError and sends nothing.                     *)
C30_ScopeBannerPrecondition ==
    [][(cmd.family = "prompt" /\ pc = "execute" /\ cmd.sub \in {"list", "search"}) =>
         LET id == IF IsSome(client'.workspace_id) THEN client'.workspace_id
                   ELSE client'.organization_id
         IN
         IF IsSome(id) /\ (Len(id[1]) < 8 \/ id[1] = "ws-flagé")
         THEN outcome' = Panicked /\ sent' = sent
         ELSE IF IsSome(config.langsmith_api_key)
         THEN /\ Len(sent') = Len(sent) + 1
              /\ sent'[Len(sent')].method = "GET"
              /\ outcome' # Panicked
         ELSE sent' = sent /\ outcome' = Failed("AuthError")]_vars

\* prompt list with a workspace ID of four bytes has panicked, nothing sent.
C30_Witness ==
    /\ cmd.family = "prompt"
    /\ cmd.sub = "list"
    /\ pc = "done"
    /\ client.workspace_id = Some("ws-1")
    /\ IsSome(config.langsmith_api_key)
    /\ outcome = Panicked
    /\ sent = <<>>

\* The claim as stated: the banner aborts exactly when the ID is shorter
\* than 8 bytes, and in every other case the request is issued.
C30_AsStated ==
    [][(cmd.family = "prompt" /\ pc = "execute" /\ cmd.sub \in {"list", "search"}) =>
         LET id == IF IsSome(client'.workspace_id) THEN client'.workspace_id
                   ELSE client'.organization_id
             len == IF id = Some("ws-flagé") THEN 9 ELSE Len(id[1])
         IN
         IF IsSome(id) /\ len < 8
         THEN outcome' = Panicked /\ sent' = sent
         ELSE Len(sent') = Len(sent) + 1]_vars
===========================================================================
